---- MODULE Spec2Model ----
(***************************************************************************)
(* bank-statement-rs: the multi-format statement ingestion pipeline.       *)
(*                                                                         *)
(* Text is a sequence of one-character strings, so every scan the code     *)
(* does (contains, find, ends_with, trim, lines, split) is computed here   *)
(* character by character.  Option<T> is a sequence of length 0 (None)     *)
(* or 1 (Some).  Result<T, E> is <<"Ok", v>> or <<"Err", e>>.              *)
(***************************************************************************)
EXTENDS Integers, Sequences, FiniteSets, TLC

VARIABLES
    doc,        \* the caller's document, as the caller built it
    text,       \* Option<&str>: the serialized document the caller holds
    fname,      \* Option<&str>: the filename the caller holds
    content,    \* ParserBuilder.content
    filepath,   \* ParserBuilder.filepath
    format,     \* ParserBuilder.format
    pc,         \* "idle" | "built" | "done"
    call,       \* the completed call: what ran, what it returned
    past        \* the builder requests completed so far, each with its result

vars == <<doc, text, fname, content, filepath, format, pc, call, past>>

----------------------------------------------------------------------------
(* Option and Result                                                       *)

None == <<>>
Some(x) == <<x>>
IsSome(o) == Len(o) = 1
Unwrap(o) == o[1]

Ok(v) == <<"Ok", v>>
Err(e) == <<"Err", e>>
IsOk(r) == r[1] = "Ok"
IsErr(r) == r[1] = "Err"

----------------------------------------------------------------------------
(* str primitives of the Rust standard library, as the code uses them      *)

UpperChars == <<"A","B","C","D","E","F","G","H","I","J","K","L","M","N","O","P","Q","R","S","T","U","V","W","X","Y","Z">>
LowerChars == <<"a","b","c","d","e","f","g","h","i","j","k","l","m","n","o","p","q","r","s","t","u","v","w","x","y","z">>
Digits == <<"0","1","2","3","4","5","6","7","8","9">>

IsWhitespace(c) == c \in {" ", "\n", "\t", "\r"}
IsDigit(c) == \E i \in 1..10 : Digits[i] = c
DigitVal(c) == (CHOOSE i \in 1..10 : Digits[i] = c) - 1

ToLowerChar(c) ==
    IF \E i \in 1..26 : UpperChars[i] = c
    THEN LowerChars[CHOOSE i \in 1..26 : UpperChars[i] = c]
    ELSE c
ToUpperChar(c) ==
    IF \E i \in 1..26 : LowerChars[i] = c
    THEN UpperChars[CHOOSE i \in 1..26 : LowerChars[i] = c]
    ELSE c

\* str::to_lowercase / str::to_uppercase
to_lowercase(s) == [i \in 1..Len(s) |-> ToLowerChar(s[i])]
to_uppercase(s) == [i \in 1..Len(s) |-> ToUpperChar(s[i])]

\* the positions (1-based) at which pat occurs in s
Occurrences(s, pat) ==
    {i \in 1..(Len(s) - Len(pat) + 1) :
        s[i] = pat[1] /\ SubSeq(s, i, i + Len(pat) - 1) = pat}

SetMin(S) == CHOOSE i \in S : \A j \in S : i <= j
SetMax(S) == CHOOSE i \in S : \A j \in S : i >= j

RECURSIVE SortedSeq(_)
SortedSeq(S) ==
    IF S = {} THEN <<>> ELSE <<SetMin(S)>> \o SortedSeq(S \ {SetMin(S)})

\* the pieces of s between the occurrences of the character sep
SplitOn(s, sep) ==
    LET at == SortedSeq({i \in 1..Len(s) : s[i] = sep})
        k == Len(at)
    IN  [j \in 1..(k + 1) |->
            SubSeq(s, IF j = 1 THEN 1 ELSE at[j - 1] + 1,
                      IF j = k + 1 THEN Len(s) ELSE at[j] - 1)]

\* str::contains, str::starts_with, str::ends_with
contains(s, pat) == Occurrences(s, pat) # {}
starts_with(s, pat) == Len(s) >= Len(pat) /\ SubSeq(s, 1, Len(pat)) = pat
ends_with(s, pat) ==
    Len(s) >= Len(pat) /\ SubSeq(s, Len(s) - Len(pat) + 1, Len(s)) = pat

\* str::find(&str): Some(0-based offset of the first occurrence) or None
find(s, pat) ==
    LET at == Occurrences(s, pat)
    IN  IF at = {} THEN None ELSE Some(SetMin(at) - 1)

\* str::trim
RECURSIVE trim_start(_)
trim_start(s) ==
    IF s # <<>> /\ IsWhitespace(s[1]) THEN trim_start(Tail(s)) ELSE s
RECURSIVE trim_end(_)
trim_end(s) ==
    IF s # <<>> /\ IsWhitespace(s[Len(s)])
    THEN trim_end(SubSeq(s, 1, Len(s) - 1))
    ELSE s
trim(s) == trim_end(trim_start(s))

\* str::lines: split at "\n", a "\r" right before it belongs to the
\* terminator, and a final empty piece is not a line
StripCr(l) ==
    IF Len(l) > 0 /\ l[Len(l)] = "\r" THEN SubSeq(l, 1, Len(l) - 1) ELSE l

lines(s) ==
    LET Pieces(ps) ==
            [i \in 1..(IF ps[Len(ps)] = <<>> THEN Len(ps) - 1 ELSE Len(ps)) |->
                IF i < Len(ps) THEN StripCr(ps[i]) ELSE ps[i]]
    IN  Pieces(SplitOn(s, "\n"))

\* str::split(char).last(): the piece after the last separator (the whole
\* string when there is none)
split_last(s, sep) ==
    LET at == {i \in 1..Len(s) : s[i] = sep}
    IN  IF at = {} THEN s ELSE SubSeq(s, SetMax(at) + 1, Len(s))

----------------------------------------------------------------------------
(* Literals of the source                                                  *)

DOT_QFX == <<".","q","f","x">>
DOT_OFX == <<".","o","f","x">>
DOT_CSV == <<".","c","s","v">>
EXT_QFX == <<"q","f","x">>
EXT_OFX == <<"o","f","x">>
OFX_OPEN == <<"<","O","F","X",">">>
OFX_CLOSE == <<"<","/","O","F","X",">">>
OFXHEADER == <<"O","F","X","H","E","A","D","E","R",":">>
DATA_OFXSGML == <<"D","A","T","A",":","O","F","X","S","G","M","L">>
XML_PROLOGUE == <<"<","?","x","m","l">>
HDR_DATE == <<"D","a","t","e">>
HDR_AMOUNT == <<"A","m","o","u","n","t">>

----------------------------------------------------------------------------
(* Detection                                                               *)

\* QfxParser::is_supported with the content test skipped once a filename
\* is given
QfxParser_is_supported_NameDecides(filename, c) ==
    IF IsSome(filename)
    THEN \/ ends_with(to_lowercase(Unwrap(filename)), DOT_QFX)
         \/ ends_with(to_lowercase(Unwrap(filename)), DOT_OFX)
    ELSE \/ contains(trim(c), OFX_OPEN)
         \/ contains(trim(c), OFXHEADER)
         \/ contains(trim(c), DATA_OFXSGML)

\* QfxParser::is_supported comparing the filename as written, not lower-cased
QfxParser_is_supported_ExactCase(filename, c) ==
    LET trimmed == trim(c)
    IN  \/ /\ IsSome(filename)
           /\ \/ ends_with(Unwrap(filename), DOT_QFX)
              \/ ends_with(Unwrap(filename), DOT_OFX)
        \/ contains(trimmed, OFX_OPEN)
        \/ contains(trimmed, OFXHEADER)
        \/ contains(trimmed, DATA_OFXSGML)

\* QfxParser::is_supported(filename: Option<&str>, content: &str)
QfxParser_is_supported(filename, c) ==
    LET trimmed == trim(c)
    IN  \/ /\ IsSome(filename)
           /\ \/ ends_with(to_lowercase(Unwrap(filename)), DOT_QFX)
              \/ ends_with(to_lowercase(Unwrap(filename)), DOT_OFX)
        \/ contains(trimmed, OFX_OPEN)
        \/ contains(trimmed, OFXHEADER)
        \/ contains(trimmed, DATA_OFXSGML)

\* CsvParser::is_supported deciding on the header line alone
CsvParser_is_supported_HeaderOnly(filename, c) ==
    LET first_line(ls) == IF ls = <<>> THEN <<>> ELSE ls[1]
        looks_like_csv(l) == contains(l, HDR_DATE) /\ contains(l, HDR_AMOUNT)
    IN  looks_like_csv(first_line(lines(c)))

\* CsvParser::is_supported looking for the column names anywhere in the
\* content
CsvParser_is_supported_AnyLine(filename, c) ==
    LET has_csv_extension ==
            IF IsSome(filename)
            THEN ends_with(to_lowercase(Unwrap(filename)), DOT_CSV)
            ELSE FALSE
        looks_like_csv(l) == contains(l, HDR_DATE) /\ contains(l, HDR_AMOUNT)
        Decide(looks) ==
            IF IsSome(filename) THEN has_csv_extension /\ looks ELSE looks
    IN  Decide(looks_like_csv(c))

\* CsvParser::is_supported(filename: Option<&str>, content: &str)
CsvParser_is_supported(filename, c) ==
    LET has_csv_extension ==
            IF IsSome(filename)
            THEN ends_with(to_lowercase(Unwrap(filename)), DOT_CSV)
            ELSE FALSE
        first_line(ls) == IF ls = <<>> THEN <<>> ELSE ls[1]
        looks_like_csv(l) == contains(l, HDR_DATE) /\ contains(l, HDR_AMOUNT)
        Decide(looks) ==
            IF IsSome(filename) THEN has_csv_extension /\ looks ELSE looks
    IN  Decide(looks_like_csv(first_line(lines(c))))

\* StatementParseError: [kind, cause]; cause is the text the variant carries
Error(kind, cause) == [kind |-> kind, cause |-> cause]
UnsupportedFormat == Error("UnsupportedFormat", <<>>)
MissingContentAndFilepath == Error("MissingContentAndFilepath", <<>>)
ReadContentFailed == Error("ReadContentFailed", <<>>)
ParseFailed(cause) == Error("ParseFailed", cause)

\* the extension-only step with a "csv" arm added
DetectByExtension_WithCsv(filename) ==
    LET ext == to_lowercase(split_last(filename, "."))
    IN  IF ext = EXT_QFX \/ ext = EXT_OFX THEN Some("Qfx")
        ELSE IF ext = <<"c","s","v">> THEN Some("Csv")
        ELSE None

\* the extension-only step of FileFormat::detect: Some(format) or None
DetectByExtension(filename) ==
    LET ext == to_lowercase(split_last(filename, "."))
    IN  IF ext = EXT_QFX \/ ext = EXT_OFX THEN Some("Qfx") ELSE None

\* FileFormat::detect(filename: Option<&str>, content: Option<&str>)
FileFormat_detect(filename, c) ==
    IF IsSome(c) /\ QfxParser_is_supported(filename, Unwrap(c)) THEN Ok("Qfx")
    ELSE IF IsSome(c) /\ CsvParser_is_supported(filename, Unwrap(c)) THEN Ok("Csv")
    ELSE IF IsSome(filename) /\ IsSome(DetectByExtension(Unwrap(filename)))
    THEN Ok(Unwrap(DetectByExtension(Unwrap(filename))))
    ELSE Err(UnsupportedFormat)

----------------------------------------------------------------------------
(* The SGML normalizer                                                     *)

LEAF_ELEMENTS == {
    <<"C","O","D","E">>,
    <<"S","E","V","E","R","I","T","Y">>,
    <<"M","E","S","S","A","G","E">>,
    <<"D","T","S","E","R","V","E","R">>,
    <<"L","A","N","G","U","A","G","E">>,
    <<"O","R","G">>,
    <<"F","I","D">>,
    <<"T","R","N","U","I","D">>,
    <<"C","U","R","D","E","F">>,
    <<"B","A","N","K","I","D">>,
    <<"A","C","C","T","I","D">>,
    <<"A","C","C","T","T","Y","P","E">>,
    <<"D","T","S","T","A","R","T">>,
    <<"D","T","E","N","D">>,
    <<"T","R","N","T","Y","P","E">>,
    <<"D","T","P","O","S","T","E","D">>,
    <<"D","T","U","S","E","R">>,
    <<"T","R","N","A","M","T">>,
    <<"F","I","T","I","D">>,
    <<"N","A","M","E">>,
    <<"M","E","M","O">>,
    <<"I","N","T","U",".","B","I","D">>,
    <<"D","T","P","R","O","F","U","P">>,
    <<"D","T","A","S","O","F">>,
    <<"B","A","L","A","M","T">>}

\* the header-skipping loop: drop lines until one contains <OFX>
RECURSIVE SkipHeader(_)
SkipHeader(ls) ==
    IF ls = <<>> THEN <<>>
    ELSE IF contains(ls[1], OFX_OPEN) THEN ls
    ELSE SkipHeader(Tail(ls))

\* the per-line step putting the synthesized closing tag at the end of the
\* line as written
ConvertLine_CloseAtEnd(line) ==
    LET trimmed == trim(line)
        ends == {i \in 1..Len(trimmed) : trimmed[i] = ">" \/ IsWhitespace(trimmed[i])}
        tag_end == IF ends = {} THEN Len(trimmed) ELSE SetMin(ends) - 1
        tag_name == SubSeq(trimmed, 2, tag_end)
        gt == find(trimmed, <<">">>)
        content_start == Unwrap(gt)
        after_tag == SubSeq(trimmed, content_start + 2, Len(trimmed))
        closing_tag == <<"<","/">> \o tag_name \o <<">">>
        ce == find(after_tag, <<"<","/">>)
        content_end == IF IsSome(ce) THEN Unwrap(ce) ELSE Len(after_tag)
        inner == trim(SubSeq(after_tag, 1, content_end))
        trailing == SubSeq(after_tag, content_end + 1, Len(after_tag))
    IN  IF trimmed = <<>> THEN <<>>
        ELSE IF ~starts_with(trimmed, <<"<">>) \/ starts_with(trimmed, <<"<","/">>)
        THEN trimmed \o <<"\n">>
        ELSE IF /\ to_uppercase(tag_name) \in LEAF_ELEMENTS
                /\ IsSome(gt)
                /\ ~contains(after_tag, closing_tag)
        THEN trimmed \o closing_tag \o <<"\n">>
        ELSE trimmed \o <<"\n">>

\* the per-line step spelling the synthesized closing tag in upper case
ConvertLine_UpperClose(line) ==
    LET trimmed == trim(line)
        ends == {i \in 1..Len(trimmed) : trimmed[i] = ">" \/ IsWhitespace(trimmed[i])}
        tag_end == IF ends = {} THEN Len(trimmed) ELSE SetMin(ends) - 1
        tag_name == SubSeq(trimmed, 2, tag_end)
        gt == find(trimmed, <<">">>)
        content_start == Unwrap(gt)
        after_tag == SubSeq(trimmed, content_start + 2, Len(trimmed))
        closing_tag == <<"<","/">> \o to_uppercase(tag_name) \o <<">">>
        ce == find(after_tag, <<"<","/">>)
        content_end == IF IsSome(ce) THEN Unwrap(ce) ELSE Len(after_tag)
        inner == trim(SubSeq(after_tag, 1, content_end))
        trailing == SubSeq(after_tag, content_end + 1, Len(after_tag))
    IN  IF trimmed = <<>> THEN <<>>
        ELSE IF ~starts_with(trimmed, <<"<">>) \/ starts_with(trimmed, <<"<","/">>)
        THEN trimmed \o <<"\n">>
        ELSE IF /\ to_uppercase(tag_name) \in LEAF_ELEMENTS
                /\ IsSome(gt)
                /\ ~contains(after_tag, closing_tag)
        THEN SubSeq(trimmed, 1, content_start + 1) \o inner \o closing_tag
             \o trailing \o <<"\n">>
        ELSE trimmed \o <<"\n">>

\* the per-line step closing a leaf without looking for a closing tag
\* already on the line
ConvertLine_AlwaysClose(line) ==
    LET trimmed == trim(line)
        ends == {i \in 1..Len(trimmed) : trimmed[i] = ">" \/ IsWhitespace(trimmed[i])}
        tag_end == IF ends = {} THEN Len(trimmed) ELSE SetMin(ends) - 1
        tag_name == SubSeq(trimmed, 2, tag_end)
        gt == find(trimmed, <<">">>)
        content_start == Unwrap(gt)
        after_tag == SubSeq(trimmed, content_start + 2, Len(trimmed))
        closing_tag == <<"<","/">> \o tag_name \o <<">">>
        ce == find(after_tag, <<"<","/">>)
        content_end == IF IsSome(ce) THEN Unwrap(ce) ELSE Len(after_tag)
        inner == trim(SubSeq(after_tag, 1, content_end))
        trailing == SubSeq(after_tag, content_end + 1, Len(after_tag))
    IN  IF trimmed = <<>> THEN <<>>
        ELSE IF ~starts_with(trimmed, <<"<">>) \/ starts_with(trimmed, <<"<","/">>)
        THEN trimmed \o <<"\n">>
        ELSE IF /\ to_uppercase(tag_name) \in LEAF_ELEMENTS
                /\ IsSome(gt)
        THEN SubSeq(trimmed, 1, content_start + 1) \o inner \o closing_tag
             \o trailing \o <<"\n">>
        ELSE trimmed \o <<"\n">>

\* the body of the per-line loop: what one line appends to result
ConvertLine(line) ==
    LET trimmed == trim(line)
        ends == {i \in 1..Len(trimmed) : trimmed[i] = ">" \/ IsWhitespace(trimmed[i])}
        tag_end == IF ends = {} THEN Len(trimmed) ELSE SetMin(ends) - 1
        tag_name == SubSeq(trimmed, 2, tag_end)
        gt == find(trimmed, <<">">>)
        content_start == Unwrap(gt)
        after_tag == SubSeq(trimmed, content_start + 2, Len(trimmed))
        closing_tag == <<"<","/">> \o tag_name \o <<">">>
        ce == find(after_tag, <<"<","/">>)
        content_end == IF IsSome(ce) THEN Unwrap(ce) ELSE Len(after_tag)
        inner == trim(SubSeq(after_tag, 1, content_end))
        trailing == SubSeq(after_tag, content_end + 1, Len(after_tag))
    IN  IF trimmed = <<>> THEN <<>>
        ELSE IF ~starts_with(trimmed, <<"<">>) \/ starts_with(trimmed, <<"<","/">>)
        THEN trimmed \o <<"\n">>
        ELSE IF /\ to_uppercase(tag_name) \in LEAF_ELEMENTS
                /\ IsSome(gt)
                /\ ~contains(after_tag, closing_tag)
        THEN SubSeq(trimmed, 1, content_start + 1) \o inner \o closing_tag
             \o trailing \o <<"\n">>
        ELSE trimmed \o <<"\n">>

RECURSIVE ConvertLines(_)
ConvertLines(ls) ==
    IF ls = <<>> THEN <<>> ELSE ConvertLine(ls[1]) \o ConvertLines(Tail(ls))

\* convert_sgml_to_xml(content: &str) -> Result<String, String>
convert_sgml_to_xml(c) == Ok(ConvertLines(SkipHeader(lines(c))))

----------------------------------------------------------------------------
(* serde_xml_rs::from_str::<OfxXml>: the XML reader and the shape the      *)
(* derive(Deserialize) structs of dto.rs ask for.  Elements are held as    *)
(* a sequence in document order: [parent, name, text, kids].  Character    *)
(* data is trimmed; attributes, comments and processing instructions are   *)
(* skipped; entity references are not modelled.                            *)

TAG ==
    [OFX |-> <<"O","F","X">>,
     BANKMSGSRSV1 |-> <<"B","A","N","K","M","S","G","S","R","S","V","1">>,
     CREDITCARDMSGSRSV1 |-> <<"C","R","E","D","I","T","C","A","R","D","M","S","G","S","R","S","V","1">>,
     STMTTRNRS |-> <<"S","T","M","T","T","R","N","R","S">>,
     CCSTMTTRNRS |-> <<"C","C","S","T","M","T","T","R","N","R","S">>,
     STMTRS |-> <<"S","T","M","T","R","S">>,
     CCSTMTRS |-> <<"C","C","S","T","M","T","R","S">>,
     BANKTRANLIST |-> <<"B","A","N","K","T","R","A","N","L","I","S","T">>,
     STMTTRN |-> <<"S","T","M","T","T","R","N">>,
     TRNTYPE |-> <<"T","R","N","T","Y","P","E">>,
     DTPOSTED |-> <<"D","T","P","O","S","T","E","D">>,
     TRNAMT |-> <<"T","R","N","A","M","T">>,
     FITID |-> <<"F","I","T","I","D">>,
     NAME |-> <<"N","A","M","E">>,
     MEMO |-> <<"M","E","M","O">>]

\* the class of the XML library's error; its wording is the library's
XML_SYNTAX == <<"s","y","n","t","a","x">>
XML_FIELD == <<"f","i","e","l","d">>

XmlStart == [stack |-> <<>>, elems |-> <<>>, err |-> FALSE]
XmlFail(st) == [st EXCEPT !.err = TRUE]

\* the element name of a start tag: up to the first whitespace, without the
\* "/" of an empty-element tag
XmlTagName(body) ==
    LET b == IF ends_with(body, <<"/">>) THEN SubSeq(body, 1, Len(body) - 1) ELSE body
        ws == {i \in 1..Len(b) : IsWhitespace(b[i])}
    IN  IF ws = {} THEN b ELSE SubSeq(b, 1, SetMin(ws) - 1)

\* one markup item, body being the text between its "<" and ">"
XmlTag(st, body) ==
    LET top == IF st.stack = <<>> THEN 0 ELSE st.stack[Len(st.stack)]
        id == Len(st.elems) + 1
        opened == [parent |-> top, name |-> XmlTagName(body), text |-> <<>>, kids |-> 0]
        added == IF top = 0 THEN Append(st.elems, opened)
                 ELSE Append([st.elems EXCEPT ![top].kids = @ + 1], opened)
    IN  IF starts_with(body, <<"?">>) \/ starts_with(body, <<"!">>) THEN st
        ELSE IF starts_with(body, <<"/">>)
        THEN IF top = 0 \/ st.elems[top].name # trim(Tail(body))
             THEN XmlFail(st)
             ELSE [st EXCEPT !.stack = SubSeq(st.stack, 1, Len(st.stack) - 1)]
        ELSE IF XmlTagName(body) = <<>> \/ (top = 0 /\ st.elems # <<>>)
        THEN XmlFail(st)
        ELSE IF ends_with(body, <<"/">>)
        THEN [st EXCEPT !.elems = added]
        ELSE [st EXCEPT !.elems = added, !.stack = Append(st.stack, id)]

\* character data (trimmed) inside the innermost open element
XmlText(st, t) ==
    LET top == IF st.stack = <<>> THEN 0 ELSE st.stack[Len(st.stack)]
    IN  IF t = <<>> \/ st.err THEN st
        ELSE IF top = 0 THEN XmlFail(st)
        ELSE [st EXCEPT !.elems[top].text = @ \o t]

\* what follows one "<": the markup up to its ">" and the character data
\* behind it; a "<" before the ">" is a syntax error
XmlPiece(st, piece) ==
    LET gts == {i \in 1..Len(piece) : piece[i] = ">"}
    IN  IF gts = {} THEN XmlFail(st)
        ELSE XmlText(XmlTag(st, SubSeq(piece, 1, SetMin(gts) - 1)),
                     trim(SubSeq(piece, SetMin(gts) + 1, Len(piece))))

RECURSIVE XmlPieces(_, _, _)
XmlPieces(ps, j, st) ==
    IF st.err THEN st
    ELSE IF j > Len(ps)
    THEN IF st.stack = <<>> /\ st.elems # <<>> THEN st ELSE XmlFail(st)
    ELSE XmlPieces(ps, j + 1, XmlPiece(st, ps[j]))

\* the reader's pass over the document
XmlRead(s) ==
    LET Pass(ps) ==
            IF trim(ps[1]) # <<>> THEN XmlFail(XmlStart)
            ELSE XmlPieces(ps, 2, XmlStart)
    IN  Pass(SplitOn(s, "<"))

\* the child elements of element pid named name, in document order
KidIds(elems, pid, name) ==
    {i \in 1..Len(elems) : elems[i].parent = pid /\ elems[i].name = name}

TheOne(S) == CHOOSE i \in S : TRUE

\* a field of type String: exactly one child of that name, holding text only
HasString(elems, pid, name) ==
    /\ Cardinality(KidIds(elems, pid, name)) = 1
    /\ elems[TheOne(KidIds(elems, pid, name))].kids = 0
StringOf(elems, pid, name) == elems[TheOne(KidIds(elems, pid, name))].text

\* a field of type Option<String> with #[serde(default)]
HasOptString(elems, pid, name) ==
    KidIds(elems, pid, name) = {} \/ HasString(elems, pid, name)
OptStringOf(elems, pid, name) ==
    IF KidIds(elems, pid, name) = {} THEN None
    ELSE Some(StringOf(elems, pid, name))

\* QfxTransactionRaw from one STMTTRN element
RawOk(elems, id) ==
    /\ HasString(elems, id, TAG.TRNTYPE)
    /\ HasString(elems, id, TAG.DTPOSTED)
    /\ HasString(elems, id, TAG.TRNAMT)
    /\ HasOptString(elems, id, TAG.FITID)
    /\ HasOptString(elems, id, TAG.NAME)
    /\ HasOptString(elems, id, TAG.MEMO)
QfxTransactionRaw(elems, id) ==
    [trn_type |-> StringOf(elems, id, TAG.TRNTYPE),
     dt_posted |-> StringOf(elems, id, TAG.DTPOSTED),
     amount |-> StringOf(elems, id, TAG.TRNAMT),
     fitid |-> OptStringOf(elems, id, TAG.FITID),
     name |-> OptStringOf(elems, id, TAG.NAME),
     memo |-> OptStringOf(elems, id, TAG.MEMO)]

\* one message branch of OfxXml: Ok(None) when the element is absent,
\* Ok(Some(transactions)) when the chain of required children is there,
\* Err when a required child is missing or repeated
MsgsBranch(elems, root, msgs, trnrs, rs) ==
    LET Transactions(t) ==
            IF \E i \in 1..Len(t) : ~RawOk(elems, t[i]) THEN Err(XML_FIELD)
            ELSE Ok(Some([i \in 1..Len(t) |-> QfxTransactionRaw(elems, t[i])]))
        InList(l) ==
            IF Cardinality(l) # 1 THEN Err(XML_FIELD)
            ELSE Transactions(SortedSeq(KidIds(elems, TheOne(l), TAG.STMTTRN)))
        InRs(b) ==
            IF Cardinality(b) # 1 THEN Err(XML_FIELD)
            ELSE InList(KidIds(elems, TheOne(b), TAG.BANKTRANLIST))
        InTrnRs(a) ==
            IF Cardinality(a) # 1 THEN Err(XML_FIELD)
            ELSE InRs(KidIds(elems, TheOne(a), rs))
        InMsgs(m) ==
            IF m = {} THEN Ok(None)
            ELSE IF Cardinality(m) # 1 THEN Err(XML_FIELD)
            ELSE InTrnRs(KidIds(elems, TheOne(m), trnrs))
    IN  InMsgs(KidIds(elems, root, msgs))

\* serde_xml_rs::from_str::<OfxXml>(ofx_content)
OfxXml_from_str(s) ==
    LET Fields(bank, cc) ==
            IF IsErr(bank) \/ IsErr(cc) THEN Err(XML_FIELD)
            ELSE Ok([bank_msgs |-> bank[2], cc_msgs |-> cc[2]])
        Document(st) ==
            IF st.err THEN Err(XML_SYNTAX)
            ELSE Fields(MsgsBranch(st.elems, 1, TAG.BANKMSGSRSV1, TAG.STMTTRNRS,
                                   TAG.STMTRS),
                        MsgsBranch(st.elems, 1, TAG.CREDITCARDMSGSRSV1,
                                   TAG.CCSTMTTRNRS, TAG.CCSTMTRS))
    IN  Document(XmlRead(s))

----------------------------------------------------------------------------
(* rust_decimal: Decimal::from_str.  A Decimal is [neg, mant, scale]: the  *)
(* value (-1)^neg * mant / 10^scale.  Tokens of the model stay far below   *)
(* the 96-bit mantissa, so overflow and rounding are not modelled.         *)

DEC ==
    [EMPTY |-> <<"I","n","v","a","l","i","d"," ","d","e","c","i","m","a","l",":"," ","e","m","p","t","y">>,
     UNKNOWN |-> <<"I","n","v","a","l","i","d"," ","d","e","c","i","m","a","l",":"," ","u","n","k","n","o","w","n"," ","c","h","a","r","a","c","t","e","r">>,
     TWO_POINTS |-> <<"I","n","v","a","l","i","d"," ","d","e","c","i","m","a","l",":"," ","t","w","o"," ","d","e","c","i","m","a","l"," ","p","o","i","n","t","s">>,
     NO_DIGITS |-> <<"I","n","v","a","l","i","d"," ","d","e","c","i","m","a","l",":"," ","n","o"," ","d","i","g","i","t","s"," ","f","o","u","n","d">>,
     LEAD |-> <<"I","n","v","a","l","i","d"," ","d","e","c","i","m","a","l",":"," ","m","u","s","t"," ","s","t","a","r","t"," ","l","e","a","d"," ","w","i","t","h"," ","a"," ","n","u","m","b","e","r">>]

RECURSIVE DigitsToNat(_)
DigitsToNat(ds) ==
    IF ds = <<>> THEN 0
    ELSE DigitsToNat(SubSeq(ds, 1, Len(ds) - 1)) * 10 + DigitVal(ds[Len(ds)])

\* the first character the scan rejects, with its error, or <<>> when the
\* scan reaches the end: digits, one ".", and "_" after a digit are accepted
DecimalScanError(body) ==
    LET bad(i) ==
            IF IsDigit(body[i]) THEN <<>>
            ELSE IF body[i] = "."
            THEN IF \E j \in 1..(i - 1) : body[j] = "." THEN DEC.TWO_POINTS ELSE <<>>
            ELSE IF body[i] = "_"
            THEN IF \E j \in 1..(i - 1) : IsDigit(body[j]) THEN <<>> ELSE DEC.LEAD
            ELSE DEC.UNKNOWN
        at == {i \in 1..Len(body) : bad(i) # <<>>}
    IN  IF at = {} THEN <<>> ELSE bad(SetMin(at))

\* Decimal::from_str read as a binary float would be: the zeros that end
\* the fraction are not kept
Decimal_from_str_DropsTrailingZeros(s) ==
    LET signed == Len(s) > 0 /\ s[1] \in {"-", "+"}
        Kept(frac, nonzero) ==
            IF nonzero = {} THEN <<>> ELSE SubSeq(frac, 1, SetMax(nonzero))
        Fraction(frac) == Kept(frac, {i \in 1..Len(frac) : frac[i] # "0"})
        Parts(whole, frac) ==
            IF whole \o frac = <<>> THEN Err(DEC.NO_DIGITS)
            ELSE Ok([neg |-> signed /\ s[1] = "-",
                     mant |-> DigitsToNat(whole \o frac),
                     scale |-> Len(frac)])
        Split(body, point) ==
            IF point = {} THEN Parts(SelectSeq(body, IsDigit), <<>>)
            ELSE Parts(SelectSeq(SubSeq(body, 1, SetMin(point) - 1), IsDigit),
                       Fraction(SelectSeq(SubSeq(body, SetMin(point) + 1, Len(body)),
                                          IsDigit)))
        Scanned(body, error) ==
            IF error # <<>> THEN Err(error)
            ELSE Split(body, {i \in 1..Len(body) : body[i] = "."})
        Body(body) ==
            IF body = <<>> THEN Err(DEC.NO_DIGITS)
            ELSE Scanned(body, DecimalScanError(body))
    IN  IF s = <<>> THEN Err(DEC.EMPTY)
        ELSE Body(IF signed THEN Tail(s) ELSE s)

\* Decimal::from_str(s) -> Result<Decimal, rust_decimal::Error>
Decimal_from_str(s) ==
    LET signed == Len(s) > 0 /\ s[1] \in {"-", "+"}
        Scale(body, point) ==
            IF point = {} THEN 0
            ELSE Len(SelectSeq(SubSeq(body, SetMin(point) + 1, Len(body)), IsDigit))
        Value(body, digits) ==
            IF digits = <<>> THEN Err(DEC.NO_DIGITS)
            ELSE Ok([neg |-> signed /\ s[1] = "-",
                     mant |-> DigitsToNat(digits),
                     scale |-> Scale(body, {i \in 1..Len(body) : body[i] = "."})])
        Scanned(body, error) ==
            IF error # <<>> THEN Err(error)
            ELSE Value(body, SelectSeq(body, IsDigit))
        Body(body) ==
            IF body = <<>> THEN Err(DEC.NO_DIGITS)
            ELSE Scanned(body, DecimalScanError(body))
    IN  IF s = <<>> THEN Err(DEC.EMPTY)
        ELSE Body(IF signed THEN Tail(s) ELSE s)

\* the decimal digits of a natural number, none for zero
RECURSIVE NatToDigits(_)
NatToDigits(n) ==
    IF n = 0 THEN <<>>
    ELSE Append(NatToDigits(n \div 10), Digits[(n % 10) + 1])

\* impl Display for Decimal: the digits of the mantissa, padded with zeros
\* up to the scale, a point before the last scale of them and "0" before a
\* leading point; "0" when nothing is left to show
Decimal_to_string(d) ==
    LET Shown(chars) ==
            (IF d.neg THEN <<"-">> ELSE <<>>)
            \o (IF d.scale = 0 THEN (IF chars = <<>> THEN <<"0">> ELSE chars)
                ELSE (IF Len(chars) = d.scale THEN <<"0">>
                      ELSE SubSeq(chars, 1, Len(chars) - d.scale))
                     \o <<".">>
                     \o SubSeq(chars, Len(chars) - d.scale + 1, Len(chars)))
        Padded(digits) ==
            Shown(IF d.scale > Len(digits)
                  THEN [i \in 1..(d.scale - Len(digits)) |-> "0"] \o digits
                  ELSE digits)
    IN  Padded(NatToDigits(d.mant))

----------------------------------------------------------------------------
(* The QFX parser                                                          *)

MSG ==
    [MISSING_OFX |-> <<"M","i","s","s","i","n","g"," ","<","O","F","X",">"," ","t","a","g">>,
     MISSING_OFX_CLOSE |-> <<"M","i","s","s","i","n","g"," ","<","/","O","F","X",">"," ","t","a","g">>,
     NO_DATA |-> <<"N","o"," ","t","r","a","n","s","a","c","t","i","o","n"," ","d","a","t","a"," ","f","o","u","n","d">>,
     XML_ERROR |-> <<"X","M","L"," ","p","a","r","s","e"," ","e","r","r","o","r",":"," ">>,
     INVALID_AMOUNT |-> <<"I","n","v","a","l","i","d"," ","a","m","o","u","n","t",":"," ">>,
     CSV_ERROR |-> <<"C","S","V"," ","d","e","s","e","r","i","a","l","i","z","e"," ","e","r","r","o","r",":"," ">>,
     INVALID_DATE |-> <<"I","n","v","a","l","i","d"," ","d","a","t","e",":"," ">>]

\* a panic: the call does not return
Panic(what) == <<"Panic", what>>
IsPanic(r) == r[1] = "Panic"

\* Iterator::collect::<Result<Vec<_>, _>>(): the first error in sequence
\* order, or every value in order
collect(rs) ==
    LET failed == {i \in 1..Len(rs) : ~IsOk(rs[i])}
    IN  IF failed # {} THEN rs[SetMin(failed)]
        ELSE Ok([i \in 1..Len(rs) |-> rs[i][2]])

\* from_raw checking the posting date, eight digits to begin with, before
\* the amount
QfxTransaction_from_raw_ChecksDate(raw) ==
    LET Built(amount) ==
            IF Len(raw.dt_posted) < 8 \/ \E i \in 1..8 : ~IsDigit(raw.dt_posted[i])
            THEN Err(MSG.INVALID_DATE)
            ELSE IF IsErr(amount) THEN Err(MSG.INVALID_AMOUNT \o amount[2])
            ELSE Ok([trn_type |-> raw.trn_type,
                     dt_posted |-> raw.dt_posted,
                     amount |-> amount[2],
                     fitid |-> raw.fitid,
                     name |-> raw.name,
                     memo |-> raw.memo])
    IN  Built(Decimal_from_str(raw.amount))

\* QfxTransaction::from_raw(raw) -> Result<QfxTransaction, String>
QfxTransaction_from_raw(raw) ==
    LET Built(amount) ==
            IF IsErr(amount) THEN Err(MSG.INVALID_AMOUNT \o amount[2])
            ELSE Ok([trn_type |-> raw.trn_type,
                     dt_posted |-> raw.dt_posted,
                     amount |-> amount[2],
                     fitid |-> raw.fitid,
                     name |-> raw.name,
                     memo |-> raw.memo])
    IN  Built(Decimal_from_str(raw.amount))

\* the collect step handing the records back last first
CollectFromRaw_Reversed(raws) ==
    collect([i \in 1..Len(raws) |-> QfxTransaction_from_raw(raws[Len(raws) + 1 - i])])

\* the collect step dropping the records that fail to convert
CollectFromRaw_SkipInvalid(raws) ==
    LET Values(kept) == Ok([i \in 1..Len(kept) |-> kept[i][2]])
    IN  Values(SelectSeq([i \in 1..Len(raws) |-> QfxTransaction_from_raw(raws[i])],
                         IsOk))

\* raw_transactions.into_iter().map(from_raw).collect(): the first error,
\* or every converted record in order
CollectFromRaw(raws) ==
    collect([i \in 1..Len(raws) |-> QfxTransaction_from_raw(raws[i])])

\* the text QfxParser::parse scans with every input sent through the
\* normalizer
XmlContent_AlwaysNormalize(c) == convert_sgml_to_xml(c)[2]

\* the text QfxParser::parse scans: the input itself behind an XML
\* prologue, the normalizer's output otherwise
XmlContent(c) ==
    IF starts_with(trim(c), XML_PROLOGUE) THEN c ELSE convert_sgml_to_xml(c)[2]

\* &xml_content[ofx_start..=ofx_end + 5], offsets 0-based
OfxSlice(x, ofx_start, ofx_end) == SubSeq(x, ofx_start + 1, ofx_end + 6)

\* QfxParser::parse looking for the closing tag before the opening one
QfxParser_parse_CloseFirst(c) ==
    LET Transactions(raw_transactions) ==
            IF ~IsSome(raw_transactions) THEN Err(MSG.NO_DATA)
            ELSE CollectFromRaw(Unwrap(raw_transactions))
        Deserialized(ofx) ==
            IF IsErr(ofx) THEN Err(MSG.XML_ERROR \o ofx[2])
            ELSE Transactions(IF IsSome(ofx[2].bank_msgs) THEN ofx[2].bank_msgs
                              ELSE ofx[2].cc_msgs)
        Located(xml_content, ofx_start, ofx_end) ==
            IF ~IsSome(ofx_end) THEN Err(MSG.MISSING_OFX_CLOSE)
            ELSE IF ~IsSome(ofx_start) THEN Err(MSG.MISSING_OFX)
            ELSE IF Unwrap(ofx_start) > Unwrap(ofx_end) + 6 THEN Panic("slice index")
            ELSE Deserialized(OfxXml_from_str(
                    OfxSlice(xml_content, Unwrap(ofx_start), Unwrap(ofx_end))))
        Scanned(xml_content) ==
            Located(xml_content, find(xml_content, OFX_OPEN), find(xml_content, OFX_CLOSE))
    IN  Scanned(XmlContent(c))

\* QfxParser::parse reporting an empty transaction list as no data
QfxParser_parse_EmptyIsNoData(c) ==
    LET Transactions(raw_transactions) ==
            IF ~IsSome(raw_transactions) \/ raw_transactions = Some(<<>>)
            THEN Err(MSG.NO_DATA)
            ELSE CollectFromRaw(Unwrap(raw_transactions))
        Deserialized(ofx) ==
            IF IsErr(ofx) THEN Err(MSG.XML_ERROR \o ofx[2])
            ELSE Transactions(IF IsSome(ofx[2].bank_msgs) THEN ofx[2].bank_msgs
                              ELSE ofx[2].cc_msgs)
        Located(xml_content, ofx_start, ofx_end) ==
            IF ~IsSome(ofx_start) THEN Err(MSG.MISSING_OFX)
            ELSE IF ~IsSome(ofx_end) THEN Err(MSG.MISSING_OFX_CLOSE)
            ELSE IF Unwrap(ofx_start) > Unwrap(ofx_end) + 6 THEN Panic("slice index")
            ELSE Deserialized(OfxXml_from_str(
                    OfxSlice(xml_content, Unwrap(ofx_start), Unwrap(ofx_end))))
        Scanned(xml_content) ==
            Located(xml_content, find(xml_content, OFX_OPEN), find(xml_content, OFX_CLOSE))
    IN  Scanned(XmlContent(c))

\* QfxParser::parse preferring the credit-card block to the bank block
QfxParser_parse_CcFirst(c) ==
    LET Transactions(raw_transactions) ==
            IF ~IsSome(raw_transactions) THEN Err(MSG.NO_DATA)
            ELSE CollectFromRaw(Unwrap(raw_transactions))
        Deserialized(ofx) ==
            IF IsErr(ofx) THEN Err(MSG.XML_ERROR \o ofx[2])
            ELSE Transactions(IF IsSome(ofx[2].cc_msgs) THEN ofx[2].cc_msgs
                              ELSE ofx[2].bank_msgs)
        Located(xml_content, ofx_start, ofx_end) ==
            IF ~IsSome(ofx_start) THEN Err(MSG.MISSING_OFX)
            ELSE IF ~IsSome(ofx_end) THEN Err(MSG.MISSING_OFX_CLOSE)
            ELSE IF Unwrap(ofx_start) > Unwrap(ofx_end) + 6 THEN Panic("slice index")
            ELSE Deserialized(OfxXml_from_str(
                    OfxSlice(xml_content, Unwrap(ofx_start), Unwrap(ofx_end))))
        Scanned(xml_content) ==
            Located(xml_content, find(xml_content, OFX_OPEN), find(xml_content, OFX_CLOSE))
    IN  Scanned(XmlContent(c))

\* QfxParser::parse(content: &str) -> Result<Vec<QfxTransaction>, String>
QfxParser_parse(c) ==
    LET Transactions(raw_transactions) ==
            IF ~IsSome(raw_transactions) THEN Err(MSG.NO_DATA)
            ELSE CollectFromRaw(Unwrap(raw_transactions))
        Deserialized(ofx) ==
            IF IsErr(ofx) THEN Err(MSG.XML_ERROR \o ofx[2])
            ELSE Transactions(IF IsSome(ofx[2].bank_msgs) THEN ofx[2].bank_msgs
                              ELSE ofx[2].cc_msgs)
        Located(xml_content, ofx_start, ofx_end) ==
            IF ~IsSome(ofx_start) THEN Err(MSG.MISSING_OFX)
            ELSE IF ~IsSome(ofx_end) THEN Err(MSG.MISSING_OFX_CLOSE)
            ELSE IF Unwrap(ofx_start) > Unwrap(ofx_end) + 6 THEN Panic("slice index")
            ELSE Deserialized(OfxXml_from_str(
                    OfxSlice(xml_content, Unwrap(ofx_start), Unwrap(ofx_end))))
        Scanned(xml_content) ==
            Located(xml_content, find(xml_content, OFX_OPEN), find(xml_content, OFX_CLOSE))
    IN  Scanned(XmlContent(c))

----------------------------------------------------------------------------
(* chrono: NaiveDate and NaiveDate::parse_from_str for the patterns the    *)
(* code uses.  A pattern is its items in order: "Y", "m", "d" are the      *)
(* numeric items %Y, %m, %d and anything else is a literal character.      *)

CHR ==
    [INVALID |-> <<"i","n","p","u","t"," ","c","o","n","t","a","i","n","s"," ","i","n","v","a","l","i","d"," ","c","h","a","r","a","c","t","e","r","s">>,
     TOO_SHORT |-> <<"p","r","e","m","a","t","u","r","e"," ","e","n","d"," ","o","f"," ","i","n","p","u","t">>,
     TOO_LONG |-> <<"t","r","a","i","l","i","n","g"," ","i","n","p","u","t">>,
     OUT_OF_RANGE |-> <<"i","n","p","u","t"," ","i","s"," ","o","u","t"," ","o","f"," ","r","a","n","g","e">>]

FMT ==
    [YMD |-> <<"Y", "-", "m", "-", "d">>,
     DMY |-> <<"d", "/", "m", "/", "Y">>,
     MDY |-> <<"m", "/", "d", "/", "Y">>]

IsLeapYear(y) == (y % 4 = 0 /\ y % 100 # 0) \/ y % 400 = 0
DaysInMonth(y, m) ==
    IF m = 2 THEN (IF IsLeapYear(y) THEN 29 ELSE 28)
    ELSE IF m \in {4, 6, 9, 11} THEN 30 ELSE 31

\* NaiveDate::from_ymd_opt(year, month, day)
NaiveDate_from_ymd_opt(y, m, d) ==
    IF m \in 1..12 /\ d >= 1 /\ d <= DaysInMonth(y, m)
    THEN Some([year |-> y, month |-> m, day |-> d])
    ELSE None

\* the number of digits at s[from..], at most max of them
DigitRun(s, from, max) ==
    LET stop == {i \in from..Len(s) : ~IsDigit(s[i])}
        end == IF stop = {} THEN Len(s) + 1 ELSE SetMin(stop)
    IN  IF end - from > max THEN max ELSE end - from

\* one numeric item at pos: leading whitespace is skipped, %Y takes a sign
\* (then any number of digits) or up to 4 digits, %m and %d up to 2.  A
\* signed year of ten digits or more is taken as beyond the i32 that
\* Parsed::set_year asks for.
ChronoNumber(s, pos, item) ==
    LET rest == {i \in pos..Len(s) : ~IsWhitespace(s[i])}
        p == IF rest = {} THEN Len(s) + 1 ELSE SetMin(rest)
        signed == item = "Y" /\ p <= Len(s) /\ s[p] \in {"+", "-"}
        from == IF signed THEN p + 1 ELSE p
        max == IF signed THEN Len(s) ELSE IF item = "Y" THEN 4 ELSE 2
        n == DigitRun(s, from, max)
        v == DigitsToNat(SubSeq(s, from, from + n - 1))
    IN  IF from > Len(s) THEN Err(CHR.TOO_SHORT)
        ELSE IF n = 0 THEN Err(CHR.INVALID)
        ELSE IF n > 9 THEN Err(CHR.OUT_OF_RANGE)
        ELSE Ok([pos |-> from + n, val |-> IF signed /\ s[p] = "-" THEN 0 - v ELSE v])

RECURSIVE ChronoRun(_, _, _, _)
ChronoRun(s, pos, items, acc) ==
    LET Date(date) == IF IsSome(date) THEN Ok(Unwrap(date)) ELSE Err(CHR.OUT_OF_RANGE)
        Number(r) ==
            IF IsErr(r) THEN r
            ELSE ChronoRun(s, r[2].pos, Tail(items), [acc EXCEPT ![items[1]] = r[2].val])
    IN  IF items = <<>>
        THEN IF pos <= Len(s) THEN Err(CHR.TOO_LONG)
             ELSE Date(NaiveDate_from_ymd_opt(acc.Y, acc.m, acc.d))
        ELSE IF items[1] \in {"Y", "m", "d"}
        THEN Number(ChronoNumber(s, pos, items[1]))
        ELSE IF pos > Len(s) THEN Err(CHR.TOO_SHORT)
        ELSE IF s[pos] # items[1] THEN Err(CHR.INVALID)
        ELSE ChronoRun(s, pos + 1, Tail(items), acc)

\* NaiveDate::parse_from_str(s, fmt) -> Result<NaiveDate, ParseError>
NaiveDate_parse_from_str(s, fmt) == ChronoRun(s, 1, fmt, [Y |-> 0, m |-> 0, d |-> 0])

----------------------------------------------------------------------------
(* The CSV parser.  csv::Reader with has_headers(true): records end at a   *)
(* line terminator, empty lines are skipped, fields are split at ",";      *)
(* quoting is not modelled.                                                *)

\* the class of the csv library's error; its wording is the library's
CSV_UNEQUAL == <<"u","n","e","q","u","a","l"," ","l","e","n","g","t","h","s">>
CSV_FIELD == <<"f","i","e","l","d">>

COL ==
    [DATE |-> <<"D","a","t","e">>,
     TYPE |-> <<"T","y","p","e">>,
     DESCRIPTION |-> <<"D","e","s","c","r","i","p","t","i","o","n">>,
     AMOUNT |-> <<"A","m","o","u","n","t">>,
     FITID |-> <<"F","I","T","I","D">>,
     MEMO |-> <<"M","e","m","o">>]

NonEmpty(l) == l # <<>>
CsvRecords(c) ==
    LET Records(ls) == [i \in 1..Len(ls) |-> SplitOn(ls[i], ",")]
    IN  Records(SelectSeq(lines(c), NonEmpty))

ColumnsOf(headers, name) == {i \in 1..Len(headers) : headers[i] = name}

\* a String field of CsvTransactionRaw: exactly one column of that name
HasColumn(headers, name) == Cardinality(ColumnsOf(headers, name)) = 1
ColumnOf(headers, rec, name) == rec[TheOne(ColumnsOf(headers, name))]

\* an Option<String> field: no such column or an empty field is None
HasOptColumn(headers, name) == Cardinality(ColumnsOf(headers, name)) <= 1
OptColumnOf(headers, rec, name) ==
    IF ColumnsOf(headers, name) = {} \/ ColumnOf(headers, rec, name) = <<>>
    THEN None
    ELSE Some(ColumnOf(headers, rec, name))

\* reader.deserialize::<CsvTransactionRaw>() for one record
CsvTransactionRaw(headers, rec) ==
    IF Len(rec) # Len(headers) THEN Err(MSG.CSV_ERROR \o CSV_UNEQUAL)
    ELSE IF ~(/\ HasColumn(headers, COL.DATE)
              /\ HasColumn(headers, COL.TYPE)
              /\ HasColumn(headers, COL.AMOUNT)
              /\ HasOptColumn(headers, COL.DESCRIPTION)
              /\ HasOptColumn(headers, COL.FITID)
              /\ HasOptColumn(headers, COL.MEMO))
    THEN Err(MSG.CSV_ERROR \o CSV_FIELD)
    ELSE Ok([date |-> ColumnOf(headers, rec, COL.DATE),
             trn_type |-> ColumnOf(headers, rec, COL.TYPE),
             description |-> OptColumnOf(headers, rec, COL.DESCRIPTION),
             amount |-> ColumnOf(headers, rec, COL.AMOUNT),
             fitid |-> OptColumnOf(headers, rec, COL.FITID),
             memo |-> OptColumnOf(headers, rec, COL.MEMO)])

\* the date of TryFrom<CsvTransactionRaw>: %Y-%m-%d, or else %d/%m/%Y
CsvRawDate(s) ==
    LET OrElse(first) ==
            IF IsOk(first) THEN first ELSE NaiveDate_parse_from_str(s, FMT.DMY)
    IN  OrElse(NaiveDate_parse_from_str(s, FMT.YMD))

\* TryFrom<CsvTransactionRaw> for CsvTransaction
CsvTransaction_try_from(raw) ==
    LET Built(date, amount) ==
            IF IsErr(date) THEN Err(MSG.INVALID_DATE \o date[2])
            ELSE IF IsErr(amount) THEN Err(MSG.INVALID_AMOUNT \o amount[2])
            ELSE Ok([date |-> date[2],
                     trn_type |-> raw.trn_type,
                     description |-> raw.description,
                     amount |-> amount[2],
                     fitid |-> raw.fitid,
                     memo |-> raw.memo])
    IN  Built(CsvRawDate(raw.date), Decimal_from_str(raw.amount))

\* one pass of the for loop of CsvParser::parse
CsvRow(headers, rec) ==
    LET Converted(raw) == IF IsErr(raw) THEN raw ELSE CsvTransaction_try_from(raw[2])
    IN  Converted(CsvTransactionRaw(headers, rec))

\* CsvParser::parse(content: &str) -> Result<Vec<CsvTransaction>, String>
CsvParser_parse(c) ==
    LET Rows(recs) ==
            IF recs = <<>> THEN Ok(<<>>)
            ELSE collect([i \in 1..(Len(recs) - 1) |-> CsvRow(recs[1], recs[i + 1])])
    IN  Rows(CsvRecords(c))

----------------------------------------------------------------------------
(* Conversion to Transaction                                               *)

QfxDateInvalidFormat == Error("QfxDateInvalidFormat", <<>>)
CsvDateInvalidFormat == Error("CsvDateInvalidFormat", <<>>)

\* CsvDate::parse trying %m/%d/%Y before %d/%m/%Y
CsvDate_parse_MonthFirst(date) ==
    LET Third(s, r) == IF IsOk(r) THEN r ELSE Err(CsvDateInvalidFormat)
        Second(s, r) ==
            IF IsOk(r) THEN r ELSE Third(s, NaiveDate_parse_from_str(s, FMT.DMY))
        First(s, r) ==
            IF IsOk(r) THEN r ELSE Second(s, NaiveDate_parse_from_str(s, FMT.MDY))
        Trimmed(s) == First(s, NaiveDate_parse_from_str(s, FMT.YMD))
    IN  Trimmed(trim(date))

\* CsvDate::parse(&self) -> Result<NaiveDate, StatementParseError>
CsvDate_parse(date) ==
    LET Third(s, r) == IF IsOk(r) THEN r ELSE Err(CsvDateInvalidFormat)
        Second(s, r) ==
            IF IsOk(r) THEN r ELSE Third(s, NaiveDate_parse_from_str(s, FMT.MDY))
        First(s, r) ==
            IF IsOk(r) THEN r ELSE Second(s, NaiveDate_parse_from_str(s, FMT.DMY))
        Trimmed(s) == First(s, NaiveDate_parse_from_str(s, FMT.YMD))
    IN  Trimmed(trim(date))

\* str::parse::<i32>() (is_signed) and str::parse::<u32>(): an optional
\* sign, "-" for the signed type only, then one or more digits
ParsesAsInt(s, is_signed) ==
    LET sign == Len(s) > 0 /\ (s[1] = "+" \/ (is_signed /\ s[1] = "-"))
        ds == IF sign THEN Tail(s) ELSE s
    IN  ds # <<>> /\ \A i \in 1..Len(ds) : IsDigit(ds[i])
IntOf(s) ==
    IF s[1] = "-" THEN 0 - DigitsToNat(Tail(s))
    ELSE IF s[1] = "+" THEN DigitsToNat(Tail(s))
    ELSE DigitsToNat(s)

\* A character outside ASCII is written as its code point; E_ACUTE takes two
\* bytes in UTF-8 and every other character of the model takes one.
E_ACUTE == "U+00E9"

\* str::len(): the length in bytes, one for every character and one more
\* for every two-byte character
len(s) == Len(s) + Cardinality({i \in 1..Len(s) : s[i] = E_ACUTE})

\* str::is_char_boundary(n) for a byte offset n
is_char_boundary(s, n) == \E k \in 0..Len(s) : len(SubSeq(s, 1, k)) = n

\* &s[a..b] for byte offsets a and b that are char boundaries
ByteSlice(s, a, b) ==
    LET Chars(inside) == [i \in 1..Cardinality(inside) |-> s[SetMin(inside) + i - 1]]
    IN  Chars({k \in 1..Len(s) : a <= len(SubSeq(s, 1, k - 1)) /\ len(SubSeq(s, 1, k)) <= b})

\* TryFrom<QfxDate> for NaiveDate: the slices are taken at byte offsets, and
\* slicing inside a character panics
QfxDate_try_into(date_str) ==
    LET Date(date) ==
            IF ~IsSome(date) THEN Err(QfxDateInvalidFormat) ELSE Ok(Unwrap(date))
        Sliced(clean, year, month, day) ==
            IF ~is_char_boundary(clean, 4) THEN Panic("char boundary")
            ELSE IF ~ParsesAsInt(year, TRUE) THEN Err(QfxDateInvalidFormat)
            ELSE IF ~is_char_boundary(clean, 6) THEN Panic("char boundary")
            ELSE IF ~ParsesAsInt(month, FALSE) THEN Err(QfxDateInvalidFormat)
            ELSE IF ~is_char_boundary(clean, 8) THEN Panic("char boundary")
            ELSE IF ~ParsesAsInt(day, FALSE) THEN Err(QfxDateInvalidFormat)
            ELSE Date(NaiveDate_from_ymd_opt(IntOf(year), IntOf(month), IntOf(day)))
        Clean(clean) ==
            IF len(clean) < 8 THEN Err(QfxDateInvalidFormat)
            ELSE Sliced(clean, ByteSlice(clean, 0, 4), ByteSlice(clean, 4, 6),
                        ByteSlice(clean, 6, 8))
        First(cut) ==
            IF cut = {} THEN date_str ELSE SubSeq(date_str, 1, SetMin(cut) - 1)
    IN  Clean(trim(First({i \in 1..Len(date_str) : date_str[i] \in {"[", "."}})))

\* the conversion taking the payee of a CSV record from its memo
Transaction_from_csv_PayeeFromMemo(stmt) ==
    Ok([date |-> stmt.date,
        amount |-> stmt.amount,
        payee |-> stmt.memo,
        transaction_type |-> stmt.trn_type,
        fitid |-> stmt.fitid,
        status |-> None,
        memo |-> stmt.memo])

\* TryFrom<CsvTransaction> for Transaction
Transaction_from_csv(stmt) ==
    Ok([date |-> stmt.date,
        amount |-> stmt.amount,
        payee |-> stmt.description,
        transaction_type |-> stmt.trn_type,
        fitid |-> stmt.fitid,
        status |-> None,
        memo |-> stmt.memo])

\* the conversion reporting an unresolvable date as a parse failure
Transaction_from_qfx_DateAsParseFailed(stmt) ==
    LET Built(date) ==
            IF IsErr(date) THEN Err(ParseFailed(MSG.INVALID_DATE))
            ELSE IF ~IsOk(date) THEN date
            ELSE Ok([date |-> date[2],
                     amount |-> stmt.amount,
                     payee |-> stmt.name,
                     transaction_type |-> stmt.trn_type,
                     fitid |-> stmt.fitid,
                     status |-> None,
                     memo |-> stmt.memo])
    IN  Built(QfxDate_try_into(stmt.dt_posted))

\* TryFrom<QfxTransaction> for Transaction
Transaction_from_qfx(stmt) ==
    LET Built(date) ==
            IF ~IsOk(date) THEN date
            ELSE Ok([date |-> date[2],
                     amount |-> stmt.amount,
                     payee |-> stmt.name,
                     transaction_type |-> stmt.trn_type,
                     fitid |-> stmt.fitid,
                     status |-> None,
                     memo |-> stmt.memo])
    IN  Built(QfxDate_try_into(stmt.dt_posted))

\* TryFrom<ParsedTransaction> for Transaction; a ParsedTransaction is
\* [tag, txn] with tag the variant
Transaction_try_from(parsed) ==
    IF parsed.tag = "Qfx" THEN Transaction_from_qfx(parsed.txn)
    ELSE Transaction_from_csv(parsed.txn)

----------------------------------------------------------------------------
(* The format dispatcher                                                   *)

\* FileFormat::parse_raw(&self, content)
FileFormat_parse_raw(fmt, c) ==
    LET Wrapped(transactions) ==
            IF IsPanic(transactions) THEN transactions
            ELSE IF IsErr(transactions) THEN Err(ParseFailed(transactions[2]))
            ELSE Ok([i \in 1..Len(transactions[2]) |->
                        [tag |-> fmt, txn |-> transactions[2][i]]])
    IN  Wrapped(IF fmt = "Qfx" THEN QfxParser_parse(c) ELSE CsvParser_parse(c))

\* the conversion step dropping the records that fail to convert
FileFormat_parse_SkipFailed(fmt, c) ==
    LET Values(kept) == Ok([i \in 1..Len(kept) |-> kept[i][2]])
        Converted(raw) ==
            IF ~IsOk(raw) THEN raw
            ELSE Values(SelectSeq([i \in 1..Len(raw[2]) |-> Transaction_try_from(raw[2][i])],
                                  IsOk))
    IN  Converted(FileFormat_parse_raw(fmt, c))

\* FileFormat::parse::<Transaction>(&self, content): the first conversion
\* error in sequence order, or every converted value in order
FileFormat_parse(fmt, c) ==
    LET Converted(raw) ==
            IF ~IsOk(raw) THEN raw
            ELSE collect([i \in 1..Len(raw[2]) |-> Transaction_try_from(raw[2][i])])
    IN  Converted(FileFormat_parse_raw(fmt, c))

\* parse_into trying detection first and the format field only after it
ParserBuilder_parse_into_DetectFirst(b_content, b_filepath, b_format, readable, disk) ==
    LET Acquired(fmt) ==
            IF IsErr(fmt) THEN [result |-> fmt, detects |-> 1, reads |-> 0]
            ELSE IF ~IsSome(b_content) /\ ~IsSome(b_filepath)
            THEN [result |-> Err(MissingContentAndFilepath), detects |-> 1, reads |-> 0]
            ELSE IF ~IsSome(b_content) /\ ~readable
            THEN [result |-> Err(ReadContentFailed), detects |-> 1, reads |-> 1]
            ELSE [result |-> FileFormat_parse(fmt[2],
                                 IF IsSome(b_content) THEN Unwrap(b_content) ELSE disk),
                  detects |-> 1,
                  reads |-> IF IsSome(b_content) THEN 0 ELSE 1]
        Detected(detected) ==
            IF IsOk(detected) \/ ~IsSome(b_format) THEN detected
            ELSE Ok(Unwrap(b_format))
    IN  Acquired(Detected(FileFormat_detect(b_filepath, b_content)))

\* parse_into acquiring the content before it settles the format
ParserBuilder_parse_into_ContentFirst(b_content, b_filepath, b_format, readable, disk) ==
    LET detects == IF IsSome(b_format) THEN 0 ELSE 1
        reads == IF ~IsSome(b_content) /\ IsSome(b_filepath) THEN 1 ELSE 0
        Resolved(fmt) ==
            IF IsErr(fmt) THEN [result |-> fmt, detects |-> detects, reads |-> reads]
            ELSE [result |-> FileFormat_parse(fmt[2],
                                 IF IsSome(b_content) THEN Unwrap(b_content) ELSE disk),
                  detects |-> detects, reads |-> reads]
    IN  IF ~IsSome(b_content) /\ ~IsSome(b_filepath)
        THEN [result |-> Err(MissingContentAndFilepath), detects |-> 0, reads |-> 0]
        ELSE IF ~IsSome(b_content) /\ ~readable
        THEN [result |-> Err(ReadContentFailed), detects |-> 0, reads |-> 1]
        ELSE Resolved(IF IsSome(b_format) THEN Ok(Unwrap(b_format))
                      ELSE FileFormat_detect(b_filepath, b_content))

\* parse_into reading the file whenever a filepath is set, the supplied
\* content used only without one
ParserBuilder_parse_into_FileFirst(b_content, b_filepath, b_format, readable, disk) ==
    LET detects == IF IsSome(b_format) THEN 0 ELSE 1
        Acquired(fmt) ==
            IF IsErr(fmt) THEN [result |-> fmt, detects |-> detects, reads |-> 0]
            ELSE IF ~IsSome(b_content) /\ ~IsSome(b_filepath)
            THEN [result |-> Err(MissingContentAndFilepath),
                  detects |-> detects, reads |-> 0]
            ELSE IF IsSome(b_filepath) /\ ~readable
            THEN [result |-> Err(ReadContentFailed), detects |-> detects, reads |-> 1]
            ELSE [result |-> FileFormat_parse(fmt[2],
                                 IF IsSome(b_filepath) THEN disk ELSE Unwrap(b_content)),
                  detects |-> detects,
                  reads |-> IF IsSome(b_filepath) THEN 1 ELSE 0]
    IN  Acquired(IF IsSome(b_format) THEN Ok(Unwrap(b_format))
                 ELSE FileFormat_detect(b_filepath, b_content))

\* ParserBuilder::parse_into::<Transaction>(self).  readable says whether
\* fs::read_to_string(path) succeeds, and disk is the text it then returns.
\* The outcome is [result, detects, reads]: what is returned, and how many
\* times detection ran and the file system was read.
ParserBuilder_parse_into(b_content, b_filepath, b_format, readable, disk) ==
    LET detects == IF IsSome(b_format) THEN 0 ELSE 1
        Acquired(fmt) ==
            IF IsErr(fmt) THEN [result |-> fmt, detects |-> detects, reads |-> 0]
            ELSE IF ~IsSome(b_content) /\ ~IsSome(b_filepath)
            THEN [result |-> Err(MissingContentAndFilepath),
                  detects |-> detects, reads |-> 0]
            ELSE IF ~IsSome(b_content) /\ ~readable
            THEN [result |-> Err(ReadContentFailed), detects |-> detects, reads |-> 1]
            ELSE [result |-> FileFormat_parse(fmt[2],
                                 IF IsSome(b_content) THEN Unwrap(b_content) ELSE disk),
                  detects |-> detects,
                  reads |-> IF IsSome(b_content) THEN 0 ELSE 1]
    IN  Acquired(IF IsSome(b_format) THEN Ok(Unwrap(b_format))
                 ELSE FileFormat_detect(b_filepath, b_content))

----------------------------------------------------------------------------
(* The callers' documents and filenames.  A document is described by what  *)
(* the caller put in it and is serialized to text before any call sees it. *)

MaxTxns == 2      \* STMTTRN nodes in a message branch
MaxRows == 2      \* data rows in a CSV document

SAMPLE ==
    [DEBIT |-> <<"D","E","B","I","T">>,
     CREDIT |-> <<"C","R","E","D","I","T">>,
     COFFEE |-> <<"C","o","f","f","e","e"," ","S","h","o","p">>,
     MORNING |-> <<"M","o","r","n","i","n","g"," ","c","o","f","f","e","e">>]

\* the fields of one STMTTRN node
TxnGood == [trn_type |-> SAMPLE.DEBIT,
            dt_posted |-> <<"2","0","2","5","1","2","2","6","1","2","0","0","0","0">>,
            amount |-> <<"-","5","0",".","0","0">>,
            fitid |-> Some(<<"1">>), name |-> Some(SAMPLE.COFFEE), memo |-> Some(SAMPLE.MORNING)]
TxnMinimal == [trn_type |-> SAMPLE.CREDIT,
               dt_posted |-> <<"2","0","2","5","1","2","2","7">>,
               amount |-> <<"1","5","0","0",".","0","0">>,
               fitid |-> None, name |-> None, memo |-> None]
TxnBadAmount == [trn_type |-> SAMPLE.DEBIT,
                 dt_posted |-> <<"2","0","2","5","1","2","2","8">>,
                 amount |-> <<"1",",","0">>,
                 fitid |-> Some(<<"3">>), name |-> None, memo |-> None]
TxnBadDate == [trn_type |-> SAMPLE.CREDIT,
               dt_posted |-> <<"2","0","2","5">>,
               amount |-> <<"7">>,
               fitid |-> None, name |-> None, memo |-> None]
TxnWideDate == [trn_type |-> SAMPLE.DEBIT,
                dt_posted |-> <<"2","0","2","5","1",E_ACUTE,"2","6">>,
                amount |-> <<"7">>,
                fitid |-> None, name |-> None, memo |-> None]
TxnSpecs == {TxnGood, TxnMinimal, TxnBadAmount, TxnBadDate}

\* the fields of one CSV data row
RowGood == [date |-> <<"2","0","2","5","-","1","2","-","2","6">>, trn_type |-> SAMPLE.DEBIT,
            description |-> SAMPLE.COFFEE, amount |-> <<"-","5","0",".","0","0">>,
            fitid |-> <<"1">>, memo |-> SAMPLE.MORNING]
RowDayFirst == [date |-> <<"2","5","/","1","2","/","2","0","2","5">>, trn_type |-> SAMPLE.CREDIT,
                description |-> <<>>, amount |-> <<"1","5","0","0",".","0","0">>,
                fitid |-> <<>>, memo |-> <<>>]
RowMonthFirst == [date |-> <<"1","2","/","2","6","/","2","0","2","5">>, trn_type |-> SAMPLE.DEBIT,
                  description |-> <<"A","C","M","E">>, amount |-> <<"7">>,
                  fitid |-> <<"2">>, memo |-> <<>>]
RowBadAmount == [date |-> <<"2","0","2","5","-","1","2","-","2","7">>, trn_type |-> SAMPLE.DEBIT,
                 description |-> <<"x">>, amount |-> <<"a","b","c">>,
                 fitid |-> <<"3">>, memo |-> <<>>]
RowBadDate == [date |-> <<"2","0","2","5","1","2","2","6">>, trn_type |-> SAMPLE.CREDIT,
               description |-> <<"y">>, amount |-> <<"7">>,
               fitid |-> <<"4">>, memo |-> <<>>]
RowSpecs == {RowGood, RowDayFirst, RowMonthFirst, RowBadAmount, RowBadDate}

SeqsUpTo(S, n) == UNION {[1..k -> S] : k \in 0..n}

QfxDoc(style, open, close, bank, cc) ==
    [kind |-> "qfx", style |-> style, open |-> open, close |-> close,
     bank |-> bank, cc |-> cc, rows |-> <<>>, raw |-> <<>>]
CsvDoc(style, rows) ==
    [kind |-> "csv", style |-> style, open |-> FALSE, close |-> FALSE,
     bank |-> None, cc |-> None, rows |-> rows, raw |-> <<>>]
RawDoc(t) ==
    [kind |-> "raw", style |-> "raw", open |-> FALSE, close |-> FALSE,
     bank |-> None, cc |-> None, rows |-> <<>>, raw |-> t]

RawTexts == {
    <<>>,
    <<"r","a","n","d","o","m"," ","c","o","n","t","e","n","t">>,
    <<"O","F","X","H","E","A","D","E","R",":","1","0","0">>,
    <<"D","a","t","e",",","A","m","o","u","n","t","\n","x",",","y">>,
    <<"x",",","y","\n","D","a","t","e",",","A","m","o","u","n","t">>,
    <<"<","/","O","F","X",">"," ","<","O","F","X",">">>,
    <<"<","?","x","m","l","?",">","<","/","O","F","X",">"," ","<","O","F","X",">">>}

\* QFX date tokens: the first eight characters and what follows them
QfxDateTokens ==
    LET DatePrefixes == {
            <<"2","0","2","5","1","2","2","6">>, <<"2","0","2","5","1","2","2","4">>, <<"2","0","2","5","0","1","0","1">>,
            <<"2","0","2","5","1","2","3","1">>, <<"2","0","2","5","0","2","2","8">>, <<"2","0","2","4","0","2","2","9">>,
            <<"2","0","2","5","1","3","0","1">>, <<"2","0","2","5","0","2","2","9">>, <<"2","0","2","5","0","1","3","2">>,
            <<"a","b","c","d","1","2","2","6">>, <<>>, <<"s","h","o","r","t">>,
            <<"1","2","3","4","5","6","7">>, <<"2","0","2","5","1","2","2">>, <<"2","0","2","5","+","1","+","5">>,
            <<"+","2","0","2","0","1","0","1">>, <<" ","2","0","2","5","1","2","2","6">>, <<"2","0","2","5","1",E_ACUTE,"2","6">>}
        DateSuffixes == {
            <<>>, <<"1","2","0","0","0","0">>, <<"[","0",":","G","M","T","]">>,
            <<".","0","0","0">>, <<"1","2","0","0","0","0","[","0",":","G","M","T","]">>, <<"1","2","0","0","0","0",".","0","0","0","[","-","5",":","E","S","T","]">>}
    IN  {p \o s : p \in DatePrefixes, s \in DateSuffixes}

\* texts for the SGML normalizer: each line between a header and the OFX
\* root tags, and whole texts after the normalizer's tests
SgmlTexts ==
    LET SgmlLines == {
            <<"<","T","R","N","T","Y","P","E",">","D","E","B","I","T">>,
            <<"<","N","A","M","E",">">>,
            <<"<","T","R","N","T","Y","P","E",">","D","E","B","I","T","<","/","T","R","N","T","Y","P","E",">">>,
            <<"<","t","r","n","t","y","p","e",">","D","E","B","I","T">>,
            <<"<","T","R","N","T","Y","P","E",">","D","E","B","I","T","<","/","t","r","n","t","y","p","e",">">>,
            <<"<","S","T","M","T","T","R","N",">">>,
            <<"<","/","S","T","M","T","T","R","N",">">>,
            <<"t","e","x","t">>,
            <<" "," ","<","M","E","M","O",">"," ","a"," ","b"," "," ">>,
            <<"<","N","A","M","E",">","a","<","/","M","E","M","O",">">>,
            <<"<","N","A","M","E",">","a","<","/","N","A","M","E",">","<","/","N","A","M","E",">">>,
            <<"<","N","A","M","E">>,
            <<"<","N","A","M","E"," ","x",">","a","b","c">>,
            <<" "," "," ">>,
            <<"<","M","E","M","O",">","x","<","/","M","E","M","O",">","y">>,
            <<"<","N","A","M","E"," ","<","/","N","A","M","E",">">>,
            <<"<","N","a","m","e",">","a"," ","<","/","b",">"," ","c">>,
            <<"<","F","O","O",">","b","a","r">>,
            <<"<",">">>,
            <<"<">>}
        Around(l) ==
            OFXHEADER \o <<"1","0","0","\n","\n">> \o OFX_OPEN \o <<"\n">> \o l \o <<"\n">>
            \o OFX_CLOSE
    IN  {Around(l) : l \in SgmlLines}
        \cup {
           <<"O","F","X","H","E","A","D","E","R",":","1","0","0","\n","D","A","T","A",":","O","F","X","S","G","M","L","\n","<","O","F","X",">","\n","<","T","R","N","T","Y","P","E",">","D","E","B","I","T","\n","<","T","R","N","A","M","T",">","-","5","0",".","0","0","\n","<","/","O","F","X",">">>,
           <<"<","T","R","N","T","Y","P","E",">","D","E","B","I","T","\n","<","/","O","F","X",">">>,
           <<"<","O","F","X",">","\r","\n","<","N","A","M","E",">","a","\r","\n","\r","\n","<","/","O","F","X",">","\r","\n">>,
           <<"x"," ","<","O","F","X",">"," ","y","\n","<","N","A","M","E",">","a","\n","\n","<","N","A","M","E",">","b","<","/","N","A","M","E",">">>}

\* CSV date tokens: those of the CsvDate tests and some more
CsvDateTokens == {
    <<"2","0","2","5","-","1","2","-","2","6">>,
    <<"2","6","/","1","2","/","2","0","2","5">>,
    <<"1","2","/","2","6","/","2","0","2","5">>,
    <<"2","0","2","5","-","0","1","-","0","1">>,
    <<"3","1","/","1","2","/","2","0","2","5">>,
    <<"2","0","2","5","-","1","3","-","0","1">>,
    <<"3","2","/","1","2","/","2","0","2","5">>,
    <<"2","0","2","5","-","0","2","-","3","0">>,
    <<"i","n","v","a","l","i","d","-","d","a","t","e">>,
    <<"2","6","-","1","2","-","2","0","2","5">>,
    <<" "," "," ">>,
    <<" "," ","2","0","2","5","-","1","2","-","2","6"," "," ">>,
    <<"0","1","/","0","2","/","2","0","2","5">>,
    <<"0","2","/","3","0","/","2","0","2","5">>,
    <<"2","9","/","0","2","/","2","0","2","4">>,
    <<"2","9","/","0","2","/","2","0","2","5">>,
    <<"1","/","2","/","2","0","2","5">>,
    <<"2","0","2","5","/","1","2","/","2","6">>,
    <<"1","3","/","1","3","/","2","0","2","5">>}

\* amount tokens, decimal and not, besides the "-50.00" of TxnGood and RowGood
AmountTokens == {
    <<"1","5","0","0",".","0","0">>, <<"7">>, <<"0",".","1","0">>, <<"-","0",".","5">>,
    <<"1","0","0">>, <<"0">>, <<"0",".","0","0">>, <<"1","2",".","3","4","5">>, <<"+","7",".","5","0">>,
    <<"0","0","7">>, <<"0","0",".","5">>, <<".","5">>, <<"-",".","2","5">>, <<"1","_","0","0","0",".","5","0">>,
    <<>>, <<"1",",","0">>, <<"a","b","c">>, <<"1",".","2",".","3">>, <<"-">>,
    <<"$","5">>}

\* a one-transaction document of either format around each amount token,
\* and each date token and normalizer text on its own
AmountDocs ==
    {QfxDoc("xml", TRUE, TRUE, Some(<<[TxnGood EXCEPT !.amount = a]>>), None) :
        a \in AmountTokens}
    \cup {CsvDoc("full", <<[RowGood EXCEPT !.amount = a]>>) : a \in AmountTokens}
TokenDocs == {RawDoc(t) : t \in QfxDateTokens \cup SgmlTexts \cup CsvDateTokens}

Docs ==
    {QfxDoc("xml", TRUE, TRUE, Some(t), None) : t \in SeqsUpTo(TxnSpecs, MaxTxns)}
    \cup {QfxDoc("sgml", TRUE, TRUE, Some(t), None) :
            t \in SeqsUpTo({TxnGood, TxnBadAmount}, MaxTxns)}
    \cup {QfxDoc("xml", TRUE, TRUE, None, Some(t)) :
            t \in SeqsUpTo({TxnMinimal, TxnBadAmount}, MaxTxns)}
    \cup {QfxDoc(s, o, c, Some(<<TxnGood>>), None) :
            s \in {"xml", "sgml", "bare"}, o \in BOOLEAN, c \in BOOLEAN}
    \cup {QfxDoc(s, TRUE, TRUE, None, None) : s \in {"xml", "sgml"}}
    \cup {QfxDoc("mixed", TRUE, TRUE, Some(<<TxnGood>>), None)}
    \cup {QfxDoc("xml", TRUE, TRUE, Some(b), Some(c)) :
            b \in {<<>>, <<TxnGood>>, <<TxnBadAmount>>},
            c \in {<<TxnMinimal>>, <<TxnBadAmount>>}}
    \cup {QfxDoc("xml", TRUE, TRUE, Some(t), None) :
            t \in {<<TxnWideDate>>, <<TxnWideDate, TxnBadDate>>, <<TxnGood, TxnWideDate>>}}
    \cup {CsvDoc("full", r) : r \in SeqsUpTo(RowSpecs, MaxRows)}
    \cup {CsvDoc(s, <<RowGood, RowDayFirst>>) : s \in {"short", "blank", "nocolumn"}}
    \cup {RawDoc(t) : t \in RawTexts}
    \cup AmountDocs
    \cup TokenDocs

Filenames == {
    <<"a",".","c","s","v">>,
    <<"A",".","C","S","V">>,
    <<"a",".","q","f","x">>,
    <<"A",".","O","F","X">>,
    <<"a",".","t","x","t">>,
    <<"q","f","x">>,
    <<"a",".","b",".","q","f","x">>,
    <<"a",".","o","f","x",".","b","a","k">>}

\* the number of transactions the caller put in a document
Size(d) ==
    Len(d.rows) + (IF IsSome(d.bank) THEN Len(Unwrap(d.bank)) ELSE 0)
    + (IF IsSome(d.cc) THEN Len(Unwrap(d.cc)) ELSE 0)

\* the filenames a document is held under: every filename for a document
\* of at most one transaction, two of them for a longer one, one for a
\* document made around a token
FilenamesOf(d) ==
    IF d \in AmountDocs \cup TokenDocs THEN {<<"a",".","c","s","v">>}
    ELSE IF Size(d) <= 1 THEN Filenames
    ELSE {<<"a",".","c","s","v">>, <<"A",".","O","F","X">>}

RECURSIVE Flatten(_)
Flatten(ss) == IF ss = <<>> THEN <<>> ELSE ss[1] \o Flatten(Tail(ss))

Line(s) == s \o <<"\n">>
OpenTag(n) == <<"<">> \o n \o <<">">>
CloseTag(n) == <<"<","/">> \o n \o <<">">>

\* a leaf element on its own line; the SGML style leaves it unclosed, and
\* so does the mixed style, an XML prologue over an SGML body
LeafLine(style, n, v) ==
    IF style \in {"sgml", "mixed"} THEN Line(OpenTag(n) \o v)
    ELSE Line(<<" ">> \o OpenTag(n) \o v \o CloseTag(n))
OptLeafLine(style, n, o) == IF IsSome(o) THEN LeafLine(style, n, Unwrap(o)) ELSE <<>>

TxnText(style, t) ==
    Line(OpenTag(TAG.STMTTRN))
    \o LeafLine(style, TAG.TRNTYPE, t.trn_type)
    \o LeafLine(style, TAG.DTPOSTED, t.dt_posted)
    \o LeafLine(style, TAG.TRNAMT, t.amount)
    \o OptLeafLine(style, TAG.FITID, t.fitid)
    \o OptLeafLine(style, TAG.NAME, t.name)
    \o OptLeafLine(style, TAG.MEMO, t.memo)
    \o Line(CloseTag(TAG.STMTTRN))

BranchText(style, msgs, trnrs, rs, o) ==
    IF ~IsSome(o) THEN <<>>
    ELSE Line(OpenTag(msgs)) \o Line(OpenTag(trnrs)) \o Line(OpenTag(rs))
         \o Line(OpenTag(TAG.BANKTRANLIST))
         \o Flatten([i \in 1..Len(Unwrap(o)) |-> TxnText(style, Unwrap(o)[i])])
         \o Line(CloseTag(TAG.BANKTRANLIST))
         \o Line(CloseTag(rs)) \o Line(CloseTag(trnrs)) \o Line(CloseTag(msgs))

QfxText(d) ==
    (IF d.style = "xml"
     THEN Line(<<"<","?","x","m","l"," ","v","e","r","s","i","o","n","=","\"","1",".","0","\"","?",">">>)
     ELSE IF d.style = "mixed"
     THEN Line(<<" ">>) \o Line(<<" ">> \o XML_PROLOGUE \o <<"?",">">>)
     ELSE IF d.style = "sgml"
     THEN Line(<<"O","F","X","H","E","A","D","E","R",":","1","0","0">>)
          \o Line(DATA_OFXSGML) \o Line(<<>>)
     ELSE <<>>)
    \o Line(OpenTag(IF d.open THEN TAG.OFX ELSE <<"I","N","V","A","L","I","D">>))
    \o BranchText(d.style, TAG.BANKMSGSRSV1, TAG.STMTTRNRS, TAG.STMTRS, d.bank)
    \o BranchText(d.style, TAG.CREDITCARDMSGSRSV1, TAG.CCSTMTTRNRS, TAG.CCSTMTRS, d.cc)
    \o (IF d.close THEN CloseTag(TAG.OFX)
        ELSE IF d.open THEN <<>> ELSE CloseTag(<<"I","N","V","A","L","I","D">>))

\* the header line of a CSV document: all six columns, the three required
\* ones, or one that lacks the Amount column
CsvHeader(style) ==
    IF style = "short"
    THEN <<"D","a","t","e",",","T","y","p","e",",","A","m","o","u","n","t">>
    ELSE IF style = "nocolumn"
    THEN <<"D","a","t","e",",","T","y","p","e">>
    ELSE <<"D","a","t","e",",","T","y","p","e",",","D","e","s","c","r","i","p","t","i","o","n",",","A","m","o","u","n","t",",","F","I","T","I","D",",","M","e","m","o">>

RowText(style, r) ==
    IF style = "short"
    THEN Line(r.date \o <<",">> \o r.trn_type \o <<",">> \o r.amount)
    ELSE IF style = "nocolumn"
    THEN Line(r.date \o <<",">> \o r.trn_type)
    ELSE Line(r.date \o <<",">> \o r.trn_type \o <<",">> \o r.description \o <<",">>
              \o r.amount \o <<",">> \o r.fitid \o <<",">> \o r.memo)
         \o (IF style = "blank" THEN Line(<<>>) ELSE <<>>)

CsvText(d) ==
    Line(CsvHeader(d.style))
    \o Flatten([i \in 1..Len(d.rows) |-> RowText(d.style, d.rows[i])])

TextOf(d) ==
    IF d.kind = "qfx" THEN QfxText(d)
    ELSE IF d.kind = "csv" THEN CsvText(d)
    ELSE d.raw

----------------------------------------------------------------------------
(* The state machine: a caller holding a document and a filename either    *)
(* calls one of the library's functions directly or assembles a            *)
(* ParserBuilder and parses.                                               *)

Formats == {"Qfx", "Csv"}

NoCall ==
    [op |-> "none", filename |-> None, content |-> None, format |-> None,
     result |-> <<"None">>, detects |-> 0, reads |-> 0, again |-> FALSE]

Init ==
    /\ doc \in Docs
    /\ text = TextOf(doc)
    /\ fname \in FilenamesOf(doc)
    /\ content = None
    /\ filepath = None
    /\ format = None
    /\ pc = "idle"
    /\ call = NoCall
    /\ past = {}

\* ParserBuilder::new()
New ==
    /\ pc = "idle"
    /\ pc' = "built"
    /\ content' = None
    /\ filepath' = None
    /\ format' = None
    /\ UNCHANGED <<doc, text, fname, call, past>>

\* ParserBuilder::content(self, content)
Content ==
    /\ pc = "built"
    /\ content' = Some(text)
    /\ UNCHANGED <<doc, text, fname, filepath, format, pc, call, past>>

\* ParserBuilder::filename(self, filename)
Filename ==
    /\ pc = "built"
    /\ filepath' = Some(fname)
    /\ UNCHANGED <<doc, text, fname, content, format, pc, call, past>>

\* ParserBuilder::format(self, format)
Format ==
    /\ pc = "built"
    /\ \E f \in Formats : format' = Some(f)
    /\ UNCHANGED <<doc, text, fname, content, filepath, pc, call, past>>

\* two requests made with the same content, filename and format, the file
\* as readable for the one as for the other
SameRequest(a, b) ==
    /\ a.filename = b.filename
    /\ a.content = b.content
    /\ a.format = b.format
    /\ a.readable = b.readable

\* parse keeping the transactions of an earlier request in a buffer that
\* the next request returns with its own
Parse_Accumulating ==
    /\ pc = "built"
    /\ \E readable \in (IF IsSome(content) \/ ~IsSome(filepath) THEN {TRUE} ELSE BOOLEAN) :
         LET Request(result) ==
                 [filename |-> filepath, content |-> content, format |-> format,
                  readable |-> readable, result |-> result]
             Carried(result) ==
                 IF IsOk(result) /\ \E a \in past : IsOk(a.result)
                 THEN Ok((CHOOSE a \in past : IsOk(a.result)).result[2] \o result[2])
                 ELSE result
             Returned(out, result) ==
                 /\ call' = [op |-> "parse", filename |-> filepath, content |-> content,
                             format |-> format, result |-> result,
                             detects |-> out.detects, reads |-> out.reads,
                             again |-> \E a \in past : SameRequest(a, Request(result))]
                 /\ past' = past \cup {Request(result)}
             Parsed(out) == Returned(out, Carried(out.result))
         IN  Parsed(ParserBuilder_parse_into(content, filepath, format, readable, text))
    /\ pc' = "done"
    /\ content' = None
    /\ filepath' = None
    /\ format' = None
    /\ UNCHANGED <<doc, text, fname>>

\* ParserBuilder::parse(self): consumes the builder.  The file at filepath,
\* when it can be read, holds the caller's document.  The request and its
\* result join the completed ones; again says whether the same request had
\* been completed before.
Parse ==
    /\ pc = "built"
    /\ \E readable \in (IF IsSome(content) \/ ~IsSome(filepath) THEN {TRUE} ELSE BOOLEAN) :
         LET Request(result) ==
                 [filename |-> filepath, content |-> content, format |-> format,
                  readable |-> readable, result |-> result]
             Returned(out) ==
                 /\ call' = [op |-> "parse", filename |-> filepath, content |-> content,
                             format |-> format, result |-> out.result,
                             detects |-> out.detects, reads |-> out.reads,
                             again |-> \E a \in past : SameRequest(a, Request(out.result))]
                 /\ past' = past \cup {Request(out.result)}
         IN  Returned(ParserBuilder_parse_into(content, filepath, format, readable, text))
    /\ pc' = "done"
    /\ content' = None
    /\ filepath' = None
    /\ format' = None
    /\ UNCHANGED <<doc, text, fname>>

\* FileFormat::detect(filename, content)
Detect ==
    /\ pc = "idle"
    /\ \E f \in {None, Some(fname)}, c \in {None, Some(text)} :
         call' = [op |-> "detect", filename |-> f, content |-> c, format |-> None,
                  result |-> FileFormat_detect(f, c), detects |-> 1, reads |-> 0,
                  again |-> FALSE]
    /\ pc' = "done"
    /\ UNCHANGED <<doc, text, fname, content, filepath, format, past>>

\* QfxParser::parse(content)
QfxParse ==
    /\ pc = "idle"
    /\ call' = [op |-> "qfx_parse", filename |-> None, content |-> Some(text),
                format |-> None, result |-> QfxParser_parse(text),
                detects |-> 0, reads |-> 0, again |-> FALSE]
    /\ pc' = "done"
    /\ UNCHANGED <<doc, text, fname, content, filepath, format, past>>

\* CsvParser::parse(content)
CsvParse ==
    /\ pc = "idle"
    /\ call' = [op |-> "csv_parse", filename |-> None, content |-> Some(text),
                format |-> None, result |-> CsvParser_parse(text),
                detects |-> 0, reads |-> 0, again |-> FALSE]
    /\ pc' = "done"
    /\ UNCHANGED <<doc, text, fname, content, filepath, format, past>>

\* NaiveDate::try_from(QfxDate::from(text))
ResolveQfxDate ==
    /\ pc = "idle"
    /\ call' = [op |-> "qfx_date", filename |-> None, content |-> Some(text),
                format |-> None, result |-> QfxDate_try_into(text),
                detects |-> 0, reads |-> 0, again |-> FALSE]
    /\ pc' = "done"
    /\ UNCHANGED <<doc, text, fname, content, filepath, format, past>>

\* convert_sgml_to_xml(text)
Normalize ==
    /\ pc = "idle"
    /\ call' = [op |-> "sgml", filename |-> None, content |-> Some(text),
                format |-> None, result |-> convert_sgml_to_xml(text),
                detects |-> 0, reads |-> 0, again |-> FALSE]
    /\ pc' = "done"
    /\ UNCHANGED <<doc, text, fname, content, filepath, format, past>>

\* QfxParser::is_supported(filename, content)
QfxIsSupported ==
    /\ pc = "idle"
    /\ \E f \in {None, Some(fname)}, c \in {text, <<>>} :
         call' = [op |-> "qfx_is_supported", filename |-> f, content |-> Some(c),
                  format |-> None, result |-> QfxParser_is_supported(f, c),
                  detects |-> 0, reads |-> 0, again |-> FALSE]
    /\ pc' = "done"
    /\ UNCHANGED <<doc, text, fname, content, filepath, format, past>>

\* CsvParser::is_supported(filename, content)
CsvIsSupported ==
    /\ pc = "idle"
    /\ \E f \in {None, Some(fname)}, c \in {text, <<>>} :
         call' = [op |-> "csv_is_supported", filename |-> f, content |-> Some(c),
                  format |-> None, result |-> CsvParser_is_supported(f, c),
                  detects |-> 0, reads |-> 0, again |-> FALSE]
    /\ pc' = "done"
    /\ UNCHANGED <<doc, text, fname, content, filepath, format, past>>

\* CsvDate::from(text).parse()
ParseCsvDate ==
    /\ pc = "idle"
    /\ call' = [op |-> "csv_date", filename |-> None, content |-> Some(text),
                format |-> None, result |-> CsvDate_parse(text),
                detects |-> 0, reads |-> 0, again |-> FALSE]
    /\ pc' = "done"
    /\ UNCHANGED <<doc, text, fname, content, filepath, format, past>>

Next ==
    \/ New
    \/ Content
    \/ Filename
    \/ Format
    \/ Parse
    \/ Detect
    \/ QfxParse
    \/ CsvParse
    \/ ResolveQfxDate
    \/ Normalize
    \/ QfxIsSupported
    \/ CsvIsSupported
    \/ ParseCsvDate

Spec == Init /\ [][Next]_vars

----------------------------------------------------------------------------
(* A caller making one builder request after another over the same         *)
(* document.                                                               *)

MaxCalls == 3     \* distinct completed requests after which no further one is built

InitCalls ==
    /\ doc \in {QfxDoc("xml", TRUE, TRUE, Some(<<TxnGood>>), None), CsvDoc("full", <<RowGood>>)}
    /\ text = TextOf(doc)
    /\ fname = <<"a",".","c","s","v">>
    /\ content = None
    /\ filepath = None
    /\ format = None
    /\ pc = "idle"
    /\ call = NoCall
    /\ past = {}

\* ParserBuilder::new() for a further request, the earlier one returned
NewAgain ==
    /\ pc = "done"
    /\ call.op = "parse"
    /\ Cardinality(past) < MaxCalls
    /\ pc' = "built"
    /\ content' = None
    /\ filepath' = None
    /\ format' = None
    /\ call' = NoCall
    /\ UNCHANGED <<doc, text, fname, past>>

NextCalls ==
    \/ New
    \/ NewAgain
    \/ Content
    \/ Filename
    \/ Format
    \/ Parse

SpecCalls == InitCalls /\ [][NextCalls]_vars

----------------------------------------------------------------------------
(* Properties of detection                                                 *)

\* the content signatures and extensions as the specification words them
HasQfxSignature(c) ==
    contains(c, OFX_OPEN) \/ contains(c, OFXHEADER) \/ contains(c, DATA_OFXSGML)
HeaderLine(c) ==
    LET nl == {i \in 1..Len(c) : c[i] = "\n"}
    IN  IF nl = {} THEN c ELSE SubSeq(c, 1, SetMin(nl) - 1)
HasCsvHeader(c) ==
    contains(HeaderLine(c), HDR_DATE) /\ contains(HeaderLine(c), HDR_AMOUNT)
HasCsvExtension(f) == ends_with(to_lowercase(f), DOT_CSV)
HasQfxExtension(f) ==
    ends_with(to_lowercase(f), DOT_QFX) \/ ends_with(to_lowercase(f), DOT_OFX)
\* the extension of a filename is what follows its last ".", and the whole
\* name when it has none
ExtensionIn(f, exts) ==
    \E i \in 0..Len(f) :
        /\ i = 0 \/ f[i] = "."
        /\ \A j \in (i + 1)..Len(f) : f[j] # "."
        /\ to_lowercase(SubSeq(f, i + 1, Len(f))) \in exts

DetectCall == call.op = "detect"
DetectWithContent == DetectCall /\ IsSome(call.content)

\* C1: FileFormat::detect on content that carries the QFX content signature
\* and a filename with a .csv extension returns Qfx
C1_QfxContentBeatsCsvExtension ==
    (/\ DetectWithContent
     /\ IsSome(call.filename)
     /\ HasQfxSignature(Unwrap(call.content))
     /\ HasCsvExtension(Unwrap(call.filename)))
    => call.result = Ok("Qfx")

C1_Witness ==
    /\ DetectWithContent
    /\ IsSome(call.filename)
    /\ HasQfxSignature(Unwrap(call.content))
    /\ HasCsvExtension(Unwrap(call.filename))
    /\ call.result = Ok("Qfx")

\* C2 as claimed: whenever content is supplied the content alone decides,
\* QFX signature first and CSV header second, whatever the filename
C2_ContentAloneDecides ==
    DetectWithContent =>
        /\ HasQfxSignature(Unwrap(call.content)) => call.result = Ok("Qfx")
        /\ (~HasQfxSignature(Unwrap(call.content)) /\ HasCsvHeader(Unwrap(call.content)))
           => call.result = Ok("Csv")

\* C2 amended: content with the QFX signature is Qfx whatever the filename;
\* content with only the CSV header is Csv when there is no filename or the
\* filename ends in .csv, Qfx when the filename ends in .qfx or .ofx, and
\* never Csv under any other filename
C2_DetectorsReadTheFilename ==
    DetectWithContent =>
        /\ HasQfxSignature(Unwrap(call.content)) => call.result = Ok("Qfx")
        /\ (~HasQfxSignature(Unwrap(call.content)) /\ HasCsvHeader(Unwrap(call.content)))
           => IF ~IsSome(call.filename) \/ HasCsvExtension(Unwrap(call.filename))
              THEN call.result = Ok("Csv")
              ELSE IF HasQfxExtension(Unwrap(call.filename))
              THEN call.result = Ok("Qfx")
              ELSE call.result # Ok("Csv")

C2_Witness ==
    /\ DetectWithContent
    /\ ~HasQfxSignature(Unwrap(call.content))
    /\ HasCsvHeader(Unwrap(call.content))
    /\ IsSome(call.filename)
    /\ HasQfxExtension(Unwrap(call.filename))
    /\ call.result = Ok("Qfx")

\* C3: when no format's detector accepts the content, or no content is
\* given, the result is Qfx exactly for a filename whose extension is qfx or
\* ofx in any letter case, and UnsupportedFormat otherwise; a .csv filename
\* with content that lacks the Date and Amount header (empty content too)
\* is UnsupportedFormat
C3_ExtensionOnlyForQfx ==
    DetectCall =>
        /\ (\/ ~IsSome(call.content)
            \/ /\ ~QfxParser_is_supported(call.filename, Unwrap(call.content))
               /\ ~CsvParser_is_supported(call.filename, Unwrap(call.content)))
           => IF IsSome(call.filename)
                 /\ ExtensionIn(Unwrap(call.filename), {EXT_QFX, EXT_OFX})
              THEN call.result = Ok("Qfx")
              ELSE call.result = Err(UnsupportedFormat)
        /\ (/\ IsSome(call.filename)
            /\ HasCsvExtension(Unwrap(call.filename))
            /\ \/ ~IsSome(call.content)
               \/ /\ ~HasCsvHeader(Unwrap(call.content))
                  /\ ~HasQfxSignature(Unwrap(call.content)))
           => call.result = Err(UnsupportedFormat)

C3_Witness ==
    /\ DetectWithContent
    /\ IsSome(call.filename)
    /\ HasCsvExtension(Unwrap(call.filename))
    /\ ~HasCsvHeader(Unwrap(call.content))
    /\ ~HasQfxSignature(Unwrap(call.content))
    /\ call.result = Err(UnsupportedFormat)

----------------------------------------------------------------------------
(* Properties of ParserBuilder::parse                                      *)

ParseCall == call.op = "parse"
IsErrorKind(r, kind) == IsErr(r) /\ r[2].kind = kind

\* C4: with an explicit format detection does not run, the result is never
\* UnsupportedFormat, and the content (supplied, or read from the file) is
\* parsed by the chosen format whatever detection would have answered
C4_ExplicitFormatSkipsDetection ==
    (ParseCall /\ IsSome(call.format)) =>
        /\ call.detects = 0
        /\ ~IsErrorKind(call.result, "UnsupportedFormat")
        /\ (\/ IsSome(call.content)
            \/ call.reads = 1 /\ ~IsErrorKind(call.result, "ReadContentFailed"))
           => call.result
                = FileFormat_parse(Unwrap(call.format),
                                   IF IsSome(call.content) THEN Unwrap(call.content)
                                   ELSE text)

C4_Witness ==
    /\ ParseCall
    /\ call.format = Some("Csv")
    /\ IsSome(call.content)
    /\ FileFormat_detect(call.filename, call.content) = Ok("Qfx")
    /\ IsErrorKind(call.result, "ParseFailed")

----------------------------------------------------------------------------
(* Properties of the parsers                                               *)

QfxParseCall == call.op = "qfx_parse"
CsvParseCall == call.op = "csv_parse"
WellFormedQfx == doc.kind = "qfx" /\ doc.style # "mixed" /\ doc.open /\ doc.close
\* the transactions of the branch the parser reads: the bank branch when the
\* document has one, the credit-card branch otherwise
SelectedBranch == IF IsSome(doc.bank) THEN doc.bank ELSE doc.cc
OneBranch == IsSome(doc.bank) # IsSome(doc.cc)
IsDecimalText(s) == IsOk(Decimal_from_str(s))
EmptyAsNone(s) == IF s = <<>> THEN None ELSE Some(s)
ValidRow(r) == r \in {RowGood, RowDayFirst}

\* C7: a QFX document with N STMTTRN nodes under exactly one branch parses
\* into exactly N records, the i-th record carrying the i-th node's fields;
\* a CSV document with N data rows parses into exactly N records, the i-th
\* from the i-th row; and every successful builder request returns as many
\* values as the input has transactions
C7_OneRecordPerTransactionInOrder ==
    /\ (QfxParseCall /\ WellFormedQfx /\ OneBranch) =>
          LET txns == Unwrap(SelectedBranch)
          IN  /\ (\A i \in 1..Len(txns) : IsDecimalText(txns[i].amount))
                 => IsOk(call.result)
              /\ IsOk(call.result) =>
                    /\ Len(call.result[2]) = Len(txns)
                    /\ \A i \in 1..Len(txns) :
                          /\ call.result[2][i].trn_type = txns[i].trn_type
                          /\ call.result[2][i].dt_posted = txns[i].dt_posted
                          /\ call.result[2][i].fitid = txns[i].fitid
                          /\ call.result[2][i].name = txns[i].name
                          /\ call.result[2][i].memo = txns[i].memo
    /\ (CsvParseCall /\ doc.kind = "csv") =>
          /\ (doc.style # "nocolumn" /\ \A i \in 1..Len(doc.rows) : ValidRow(doc.rows[i]))
             => IsOk(call.result)
          /\ IsOk(call.result) =>
                /\ Len(call.result[2]) = Len(doc.rows)
                /\ \A i \in 1..Len(doc.rows) :
                      /\ call.result[2][i].trn_type = doc.rows[i].trn_type
                      /\ doc.style = "full"
                         => call.result[2][i].fitid = EmptyAsNone(doc.rows[i].fitid)
    /\ (ParseCall /\ IsOk(call.result)) =>
          /\ doc.kind = "csv" => Len(call.result[2]) = Len(doc.rows)
          /\ (WellFormedQfx /\ OneBranch)
             => /\ Len(call.result[2]) = Len(Unwrap(SelectedBranch))
                /\ \A i \in 1..Len(call.result[2]) :
                      call.result[2][i].transaction_type
                          = Unwrap(SelectedBranch)[i].trn_type

C7_Witness ==
    /\ QfxParseCall
    /\ WellFormedQfx
    /\ OneBranch
    /\ Len(Unwrap(SelectedBranch)) = 2
    /\ IsOk(call.result)
    /\ Len(call.result[2]) = 2
    /\ call.result[2][1].trn_type # call.result[2][2].trn_type

\* C8: QfxParser::parse fails with "Missing <OFX> tag" when the text it
\* scans (the input behind an XML prologue, the normalizer's output
\* otherwise) has no <OFX>, and with "Missing </OFX> tag" when that text has
\* <OFX> but no </OFX>
C8_MissingRootTags ==
    QfxParseCall =>
        /\ ~contains(XmlContent(text), OFX_OPEN)
           => call.result = Err(MSG.MISSING_OFX)
        /\ (contains(XmlContent(text), OFX_OPEN) /\ ~contains(XmlContent(text), OFX_CLOSE))
           => call.result = Err(MSG.MISSING_OFX_CLOSE)

C8_Witness ==
    /\ QfxParseCall
    /\ doc.kind = "qfx"
    /\ doc.style = "sgml"
    /\ ~doc.open
    /\ ~doc.close
    /\ call.result = Err(MSG.MISSING_OFX)

\* C9: a well-formed document with neither the bank nor the credit-card
\* branch fails with "No transaction data found"; one whose selected branch
\* is present with zero STMTTRN nodes parses into the empty sequence
C9_NoDataVersusEmpty ==
    (QfxParseCall /\ WellFormedQfx) =>
        IF ~IsSome(SelectedBranch)
        THEN call.result = Err(MSG.NO_DATA)
        ELSE Unwrap(SelectedBranch) = <<>> => call.result = Ok(<<>>)

C9_Witness ==
    /\ QfxParseCall
    /\ WellFormedQfx
    /\ IsSome(SelectedBranch)
    /\ Unwrap(SelectedBranch) = <<>>
    /\ call.result = Ok(<<>>)

\* the first transaction of the selected branch whose TRNAMT is no decimal
BadAmounts ==
    IF WellFormedQfx /\ IsSome(SelectedBranch)
    THEN {i \in 1..Len(Unwrap(SelectedBranch)) :
             ~IsDecimalText(Unwrap(SelectedBranch)[i].amount)}
    ELSE {}
FirstBadAmount == Unwrap(SelectedBranch)[SetMin(BadAmounts)].amount
\* the builder request that parses the document as QFX
QfxRequest ==
    /\ ParseCall
    /\ IsSome(call.content) \/ call.reads = 1
    /\ ~IsErrorKind(call.result, "ReadContentFailed")
    /\ \/ call.format = Some("Qfx")
       \/ /\ ~IsSome(call.format)
          /\ FileFormat_detect(call.filename, call.content) = Ok("Qfx")

----------------------------------------------------------------------------
(* Properties of the conversion to Transaction                             *)

\* the builder request that reaches the parser: the format it settled on
\* and the text it parses
Dispatched ==
    /\ ParseCall
    /\ IsSome(call.content) \/ call.reads = 1
    /\ ~IsErrorKind(call.result, "ReadContentFailed")
    /\ IsSome(call.format) \/ IsOk(FileFormat_detect(call.filename, call.content))
RequestFormat ==
    IF IsSome(call.format) THEN Unwrap(call.format)
    ELSE FileFormat_detect(call.filename, call.content)[2]
RequestText == IF IsSome(call.content) THEN Unwrap(call.content) ELSE text
RawRecords == FileFormat_parse_raw(RequestFormat, RequestText)

\* C11: a builder request is all-or-nothing and fail-fast: when the raw
\* parse fails the request returns that error; when every raw record
\* converts it returns exactly one value per raw record, the i-th from the
\* i-th record; otherwise it returns the error of the first record, in
\* sequence order, that fails to convert, and no list
C11_AllOrNothingFailFast ==
    Dispatched =>
        LET raw == RawRecords
            conv == [i \in 1..Len(raw[2]) |-> Transaction_try_from(raw[2][i])]
            failed == {i \in 1..Len(raw[2]) : ~IsOk(conv[i])}
        IN  IF ~IsOk(raw) THEN call.result = raw
            ELSE IF failed = {}
            THEN /\ IsOk(call.result)
                 /\ Len(call.result[2]) = Len(raw[2])
                 /\ \A i \in 1..Len(raw[2]) : call.result[2][i] = conv[i][2]
            ELSE call.result = conv[SetMin(failed)]

C11_Witness ==
    /\ Dispatched
    /\ doc = QfxDoc("xml", TRUE, TRUE, Some(<<TxnGood, TxnBadDate>>), None)
    /\ IsOk(RawRecords)
    /\ Len(RawRecords[2]) = 2
    /\ IsOk(Transaction_try_from(RawRecords[2][1]))
    /\ call.result = Err(QfxDateInvalidFormat)

\* a well-formed QFX document whose selected branch has only decimal
\* amounts, and the records of that branch whose DTPOSTED token the resolver
\* does not turn into a date
ValidAmounts == WellFormedQfx /\ IsSome(SelectedBranch) /\ BadAmounts = {}
BadDates ==
    {i \in 1..Len(Unwrap(SelectedBranch)) :
        ~IsOk(QfxDate_try_into(Unwrap(SelectedBranch)[i].dt_posted))}

\* C12: the QFX posting date is resolved lazily.  On a well-formed document
\* with decimal amounts QfxParser::parse and FileFormat::parse_raw succeed
\* whatever the DTPOSTED tokens are, every record keeping its token as
\* written; a builder request over it succeeds when every token resolves,
\* and when one does not it returns no list, never a ParseFailed, and any
\* error it returns is QfxDateInvalidFormat
C12_QfxDateResolvedLazily ==
    ValidAmounts =>
        /\ QfxParseCall =>
              /\ IsOk(call.result)
              /\ Len(call.result[2]) = Len(Unwrap(SelectedBranch))
              /\ \A i \in 1..Len(Unwrap(SelectedBranch)) :
                    call.result[2][i].dt_posted = Unwrap(SelectedBranch)[i].dt_posted
        /\ QfxRequest =>
              /\ IsOk(RawRecords)
              /\ BadDates = {} => IsOk(call.result)
              /\ BadDates # {} =>
                    /\ ~IsOk(call.result)
                    /\ ~IsErrorKind(call.result, "ParseFailed")
                    /\ IsErr(call.result) => call.result = Err(QfxDateInvalidFormat)

C12_Witness ==
    /\ QfxRequest
    /\ ValidAmounts
    /\ BadDates = {2}
    /\ Unwrap(SelectedBranch)[2] = TxnBadDate
    /\ IsOk(RawRecords)
    /\ call.result = Err(QfxDateInvalidFormat)

----------------------------------------------------------------------------
(* Properties of date and amount tokens                                    *)

QfxDateCall == call.op = "qfx_date"
IsDigits(s) == \A i \in 1..Len(s) : IsDigit(s[i])
\* a token without its suffix: what precedes the first "[" or ".", with
\* the whitespace around it removed
Significant(t) ==
    LET cut == {i \in 1..Len(t) : t[i] \in {"[", "."}}
    IN  trim(IF cut = {} THEN t ELSE SubSeq(t, 1, SetMin(cut) - 1))
\* the calendar date a YYYYMMDD prefix names, if it names one
PrefixDate(t) ==
    IF Len(Significant(t)) >= 8 /\ IsDigits(SubSeq(Significant(t), 1, 8))
    THEN NaiveDate_from_ymd_opt(DigitsToNat(SubSeq(Significant(t), 1, 4)),
                                DigitsToNat(SubSeq(Significant(t), 5, 6)),
                                DigitsToNat(SubSeq(Significant(t), 7, 8)))
    ELSE None

\* C13: resolving a QfxDate gives the calendar date of the YYYYMMDD prefix
\* for every token that starts with eight digits naming a real date,
\* whatever follows them, and fails with QfxDateInvalidFormat for every
\* other token: one with fewer than eight significant characters, or one
\* whose prefix is not a real calendar date
C13_QfxDateFromPrefixAlone ==
    QfxDateCall =>
        IF IsSome(PrefixDate(text))
        THEN call.result = Ok(Unwrap(PrefixDate(text)))
        ELSE call.result = Err(QfxDateInvalidFormat)

----------------------------------------------------------------------------
(* Properties of CSV dates                                                 *)

\* the date of the first of the patterns YYYY-MM-DD, DD/MM/YYYY and
\* MM/DD/YYYY, tried in that order, that a token matches
FirstMatch(s) ==
    IF IsOk(NaiveDate_parse_from_str(s, FMT.YMD)) THEN NaiveDate_parse_from_str(s, FMT.YMD)
    ELSE IF IsOk(NaiveDate_parse_from_str(s, FMT.DMY)) THEN NaiveDate_parse_from_str(s, FMT.DMY)
    ELSE NaiveDate_parse_from_str(s, FMT.MDY)
\* a CSV document with the required columns and a decimal amount in every row
CsvWithAmounts ==
    /\ doc.kind = "csv"
    /\ doc.style # "nocolumn"
    /\ \A i \in 1..Len(doc.rows) : IsDecimalText(doc.rows[i].amount)
\* the builder request that parses the document as CSV
CsvRequest == Dispatched /\ RequestFormat = "Csv"

\* C14: a CSV document whose rows are all dated by one of the three
\* patterns, with decimal amounts, parses, and converts through the
\* builder, into one record per row carrying the date of the first pattern
\* its row matches
C14_ThreeCsvDatePatterns ==
    (/\ CsvWithAmounts
     /\ \A i \in 1..Len(doc.rows) : IsOk(FirstMatch(doc.rows[i].date))
     /\ CsvParseCall \/ CsvRequest)
    => /\ IsOk(call.result)
       /\ Len(call.result[2]) = Len(doc.rows)
       /\ \A i \in 1..Len(doc.rows) :
             call.result[2][i].date = FirstMatch(doc.rows[i].date)[2]

\* C15: CsvParser::parse does not reject a row because of its date: a CSV
\* document with decimal amounts parses whatever its dates are, and a
\* builder request over one with a date that matches none of the patterns
\* fails at the conversion with CsvDateInvalidFormat, not with ParseFailed
C15_CsvDateDeferred ==
    CsvWithAmounts =>
        /\ CsvParseCall => IsOk(call.result)
        /\ (CsvRequest /\ \E i \in 1..Len(doc.rows) : ~IsOk(FirstMatch(doc.rows[i].date)))
           => call.result = Err(CsvDateInvalidFormat)

----------------------------------------------------------------------------
(* Properties of amounts                                                   *)

\* the amount tokens of the document in order, and the call that parsed
\* them all: a parser applied to a document of its own format, or a
\* builder request dispatched to it
Amounts ==
    IF doc.kind = "csv" THEN [i \in 1..Len(doc.rows) |-> doc.rows[i].amount]
    ELSE [i \in 1..Len(Unwrap(SelectedBranch)) |-> Unwrap(SelectedBranch)[i].amount]
AmountsParsed ==
    /\ \/ doc.kind = "csv" /\ (CsvParseCall \/ CsvRequest)
       \/ WellFormedQfx /\ IsSome(SelectedBranch) /\ (QfxParseCall \/ QfxRequest)
    /\ IsOk(call.result)
    /\ Len(call.result[2]) = Len(Amounts)
Rendered(i) == Decimal_to_string(call.result[2][i].amount)
FractionOf(s) ==
    LET point == {i \in 1..Len(s) : s[i] = "."}
    IN  IF point = {} THEN <<>> ELSE SubSeq(s, SetMin(point), Len(s))
\* a token as a decimal is written: no "+", no "_", no needless zeros
\* before the integer part, and a "0" before a leading point
Canonical(t) ==
    LET body == SelectSeq(IF t[1] \in {"+", "-"} THEN Tail(t) ELSE t,
                          LAMBDA c : c # "_")
        whole == SubSeq(body, 1, Len(body) - Len(FractionOf(body)))
        nonzero == {i \in 1..Len(whole) : whole[i] # "0"}
    IN  (IF t[1] = "-" THEN <<"-">> ELSE <<>>)
        \o (IF nonzero = {} THEN <<"0">> ELSE SubSeq(whole, SetMin(nonzero), Len(whole)))
        \o FractionOf(body)

----------------------------------------------------------------------------
(* Properties of the converted records                                     *)

\* C17: every Transaction a builder request returns carries the amount,
\* transaction type, fitid and memo of the parsed record it comes from,
\* unchanged, its NAME (QFX) or Description (CSV) as payee, and no status;
\* the payee is the NAME or Description written in the document
C17_FieldsCopiedStatusUnset ==
    (Dispatched /\ IsOk(call.result)) =>
        /\ IsOk(RawRecords)
        /\ Len(call.result[2]) = Len(RawRecords[2])
        /\ \A i \in 1..Len(call.result[2]) :
              LET parsed == RawRecords[2][i]
                  txn == call.result[2][i]
              IN  /\ txn.amount = parsed.txn.amount
                  /\ txn.transaction_type = parsed.txn.trn_type
                  /\ txn.fitid = parsed.txn.fitid
                  /\ txn.memo = parsed.txn.memo
                  /\ txn.status = None
                  /\ txn.payee = IF parsed.tag = "Qfx" THEN parsed.txn.name
                                 ELSE parsed.txn.description
                  /\ (QfxRequest /\ WellFormedQfx /\ IsSome(SelectedBranch))
                     => txn.payee = Unwrap(SelectedBranch)[i].name
                  /\ (CsvRequest /\ doc.kind = "csv" /\ doc.style = "full")
                     => txn.payee = EmptyAsNone(doc.rows[i].description)

C17_Witness ==
    /\ CsvRequest
    /\ doc = CsvDoc("full", <<RowGood, RowDayFirst>>)
    /\ IsOk(call.result)
    /\ call.result[2][1].payee = Some(SAMPLE.COFFEE)
    /\ call.result[2][1].memo = Some(SAMPLE.MORNING)
    /\ call.result[2][1].status = None
    /\ call.result[2][2].payee = None

----------------------------------------------------------------------------
(* Properties of repeated requests                                         *)

----------------------------------------------------------------------------
(* Properties of QFX parsing as a whole                                    *)

\* the calls that parse a text as QFX and convert its records: the parser
\* itself, the date resolver, and a builder request settled on QFX
QfxCalls ==
    \/ QfxParseCall
    \/ QfxDateCall
    \/ Dispatched /\ RequestFormat = "Qfx"

\* C19: for every input text, QFX parsing and conversion ends with a
\* transaction list (a date, for the resolver) or a typed error value; no
\* input makes the call abort instead of returning
C19_QfxNeverAborts == QfxCalls => IsOk(call.result) \/ IsErr(call.result)


\* a well-formed QFX document holding both a bank-statement block and a
\* credit-card-statement block, and the same document without the
\* credit-card block
BothBlocks == WellFormedQfx /\ IsSome(doc.bank) /\ IsSome(doc.cc)
BankOnlyText == TextOf([doc EXCEPT !.cc = None])

\* C20: on a document with both a bank-statement block and a
\* credit-card-statement block QfxParser::parse returns what it returns for
\* the bank block alone: one record per bank transaction with a decimal
\* amount, in order and with its fields as written (none for an empty
\* block), the credit-card block's transactions never among them, and an
\* invalid amount in the credit-card block does not fail the parse
C20_BankBlockOnly ==
    (QfxParseCall /\ BothBlocks) =>
        /\ call.result = QfxParser_parse(BankOnlyText)
        /\ (\A i \in 1..Len(Unwrap(doc.bank)) : IsDecimalText(Unwrap(doc.bank)[i].amount)) =>
              /\ IsOk(call.result)
              /\ Len(call.result[2]) = Len(Unwrap(doc.bank))
              /\ \A i \in 1..Len(Unwrap(doc.bank)) :
                    /\ call.result[2][i].trn_type = Unwrap(doc.bank)[i].trn_type
                    /\ call.result[2][i].dt_posted = Unwrap(doc.bank)[i].dt_posted
                    /\ call.result[2][i].fitid = Unwrap(doc.bank)[i].fitid

C20_Witness ==
    /\ QfxParseCall
    /\ BothBlocks
    /\ doc.bank = Some(<<>>)
    /\ doc.cc = Some(<<TxnBadAmount>>)
    /\ call.result = Ok(<<>>)

----------------------------------------------------------------------------
(* Properties of the SGML normalizer                                       *)

NormalizeCall == call.op = "sgml"

\* the lines the normalizer keeps, trimmed: those from the first line that
\* contains <OFX> on, the blank ones left out
KeptLines(t) ==
    LET with_ofx(ls) == {i \in 1..Len(ls) : contains(ls[i], OFX_OPEN)}
        NotBlank(l) == trim(l) # <<>>
        Trimmed(ls) == [i \in 1..Len(ls) |-> trim(ls[i])]
        From(ls, first) ==
            IF first = {} THEN <<>>
            ELSE Trimmed(SelectSeq(SubSeq(ls, SetMin(first), Len(ls)), NotBlank))
        Kept(ls) == From(ls, with_ofx(ls))
    IN  Kept(lines(t))

\* a trimmed line read as an opening tag: its element name, up to the first
\* ">" or whitespace; the tag itself, up to the first ">"; the remainder
\* behind it; the inline text, up to the first "</" of the remainder
TagName(t) ==
    LET stop == {i \in 2..Len(t) : t[i] = ">" \/ IsWhitespace(t[i])}
    IN  SubSeq(t, 2, IF stop = {} THEN Len(t) ELSE SetMin(stop) - 1)
TagHead(t) == SubSeq(t, 1, SetMin({i \in 1..Len(t) : t[i] = ">"}))
Remainder(t) == SubSeq(t, Len(TagHead(t)) + 1, Len(t))
InlineEnd(r) ==
    LET closes == {i \in 1..Len(r) - 1 : r[i] = "<" /\ r[i + 1] = "/"}
    IN  IF closes = {} THEN Len(r) ELSE SetMin(closes) - 1
OpensLeaf(t) ==
    /\ starts_with(t, <<"<">>)
    /\ ~starts_with(t, <<"<","/">>)
    /\ contains(t, <<">">>)
    /\ to_uppercase(TagName(t)) \in LEAF_ELEMENTS
Unclosed(t) == OpensLeaf(t) /\ ~contains(Remainder(t), CloseTag(TagName(t)))

\* what the claim says a kept line becomes
Normalized(t) ==
    IF Unclosed(t)
    THEN TagHead(t) \o trim(SubSeq(Remainder(t), 1, InlineEnd(Remainder(t))))
         \o CloseTag(TagName(t))
         \o SubSeq(Remainder(t), InlineEnd(Remainder(t)) + 1, Len(Remainder(t)))
    ELSE t

\* C21: convert_sgml_to_xml drops every line before the first one that
\* contains <OFX> and every blank line, and emits each remaining line
\* trimmed and newline-terminated: a line opening a registry leaf element
\* (in any letter case) whose remainder lacks the closing tag of that name
\* gets it right after its inline text, and every other line, a closing
\* tag, plain text, a container or a leaf already closed, is copied
C21_NormalizerLineByLine ==
    NormalizeCall =>
        /\ IsOk(call.result)
        /\ call.result[2] =
              Flatten([i \in 1..Len(KeptLines(text)) |->
                          Line(Normalized(KeptLines(text)[i]))])

C21_Witness ==
    /\ NormalizeCall
    /\ Len(lines(text)) > Len(KeptLines(text))
    /\ \E i \in 1..Len(KeptLines(text)) :
          /\ Unclosed(KeptLines(text)[i])
          /\ Remainder(KeptLines(text)[i]) # <<>>
    /\ contains(call.result[2], <<"<","T","R","N","T","Y","P","E",">","D","E","B","I","T","<","/","T","R","N","T","Y","P","E",">","\n">>)
    /\ ~contains(call.result[2], OFXHEADER)


\* the i-th line of the normalizer's output, which comes from the i-th kept
\* line, and how often a line holds the closing tag of the element it opens
OutLine(i) == lines(call.result[2])[i]
Closings(t, l) == Cardinality(Occurrences(l, CloseTag(TagName(t))))

C30_NormalizerIdempotent ==
    NormalizeCall => convert_sgml_to_xml(call.result[2]) = call.result

C30_Witness ==
    /\ NormalizeCall
    /\ call.result[2] # text
    /\ call.result[2] # <<>>
    /\ \E i \in 1..Len(KeptLines(text)) : Unclosed(KeptLines(text)[i])
    /\ convert_sgml_to_xml(call.result[2]) = call.result


----------------------------------------------------------------------------
(* Properties of the XML passthrough                                       *)

HasPrologue(t) == starts_with(trim(t), XML_PROLOGUE)

\* what the structural parse makes of a text taken as it is: the slice
\* between the root tags deserialized, the bank branch before the
\* credit-card one, the records converted in order
ParsedAsXml(x) ==
    LET Records(ofx) ==
            IF IsErr(ofx) THEN Err(MSG.XML_ERROR \o ofx[2])
            ELSE IF IsSome(ofx[2].bank_msgs) THEN CollectFromRaw(Unwrap(ofx[2].bank_msgs))
            ELSE IF IsSome(ofx[2].cc_msgs) THEN CollectFromRaw(Unwrap(ofx[2].cc_msgs))
            ELSE Err(MSG.NO_DATA)
        Between(start, end) ==
            IF ~IsSome(start) THEN Err(MSG.MISSING_OFX)
            ELSE IF ~IsSome(end) THEN Err(MSG.MISSING_OFX_CLOSE)
            ELSE IF Unwrap(start) > Unwrap(end) + 6 THEN Panic("slice index")
            ELSE Records(OfxXml_from_str(OfxSlice(x, Unwrap(start), Unwrap(end))))
    IN  Between(find(x, OFX_OPEN), find(x, OFX_CLOSE))

\* C22: QfxParser::parse passes a document that begins, after trimming,
\* with the <?xml prologue through as it is, the normalizer not applied to
\* it, and parses the normalizer's output for every other input
C22_ProloguePassthrough ==
    QfxParseCall =>
        IF HasPrologue(text) THEN call.result = ParsedAsXml(text)
        ELSE call.result = ParsedAsXml(convert_sgml_to_xml(text)[2])

\* a prologue over unclosed leaf tags: the normalizer would have closed them
C22_Witness ==
    /\ QfxParseCall
    /\ HasPrologue(text)
    /\ ~starts_with(text, XML_PROLOGUE)
    /\ doc.style = "mixed"
    /\ convert_sgml_to_xml(text)[2] # text
    /\ IsOk(ParsedAsXml(convert_sgml_to_xml(text)[2]))
    /\ IsErr(call.result)
    /\ starts_with(call.result[2], MSG.XML_ERROR)


----------------------------------------------------------------------------
(* Properties of the parsers' own detection                                *)

QfxSupportedCall == call.op = "qfx_is_supported"
CsvSupportedCall == call.op = "csv_is_supported"

\* C23: QfxParser::is_supported is true for a filename whose lower-cased
\* form ends in .qfx or .ofx, whatever the content; otherwise, with or
\* without a filename, it is true exactly when the trimmed content contains
\* <OFX>, OFXHEADER: or DATA:OFXSGML
C23_QfxIsSupported ==
    QfxSupportedCall =>
        IF IsSome(call.filename) /\ HasQfxExtension(Unwrap(call.filename))
        THEN call.result = TRUE
        ELSE call.result = HasQfxSignature(trim(Unwrap(call.content)))

\* an upper-case extension over content that is not QFX
C23_Witness ==
    /\ QfxSupportedCall
    /\ call.filename = Some(<<"A",".","O","F","X">>)
    /\ doc.kind = "csv"
    /\ call.content = Some(text)
    /\ ~HasQfxSignature(text)
    /\ call.result = TRUE

\* C24: CsvParser::is_supported is true exactly when the first line of the
\* content contains both Date and Amount and, a filename given, the
\* filename ends in .csv whatever its letter case; without a filename the
\* first line alone decides
C24_CsvIsSupported ==
    CsvSupportedCall =>
        call.result =
            (/\ HasCsvHeader(Unwrap(call.content))
             /\ IsSome(call.filename) => HasCsvExtension(Unwrap(call.filename)))

\* the column names on the second line only
C24_Witness ==
    /\ CsvSupportedCall
    /\ call.filename = Some(<<"A",".","C","S","V">>)
    /\ call.content = Some(<<"x",",","y","\n","D","a","t","e",",","A","m","o","u","n","t">>)
    /\ call.result = FALSE

\* C28: the extension test of FileFormat::detect agrees with the filename
\* test of QfxParser::is_supported: for every filename f,
\* detect(Some(f), None) returns Qfx exactly when is_supported(Some(f), "")
\* is true
C28_ExtensionTestsAgree ==
    (DetectCall /\ IsSome(call.filename) /\ ~IsSome(call.content)) =>
        (call.result = Ok("Qfx")) = QfxParser_is_supported(call.filename, <<>>)


----------------------------------------------------------------------------
(* Properties of CsvDate                                                   *)

CsvDateCall == call.op = "csv_date"

\* a token written as three runs of digits around one separator, the runs
\* as numbers, and the calendar date of a year, month and day if there is one
Runs(t, sep) == SplitOn(t, sep)
IsWritten(t, sep, widths) ==
    /\ Len(Runs(t, sep)) = 3
    /\ \A i \in 1..3 : IsDigits(Runs(t, sep)[i]) /\ Len(Runs(t, sep)[i]) \in widths[i]
Run(t, sep, i) == DigitsToNat(Runs(t, sep)[i])
DateOf(y, m, d) ==
    IF m \in 1..12 /\ d \in 1..DaysInMonth(y, m)
    THEN Ok([year |-> y, month |-> m, day |-> d])
    ELSE Err(CsvDateInvalidFormat)

\* C25: CsvDate::parse trims the token and returns the date of the first of
\* %Y-%m-%d, %d/%m/%Y, %m/%d/%Y that matches: a YYYY-MM-DD token gives that
\* date, a token of two-digit fields and a year around "/" is read
\* day-first when that is a calendar date and month-first otherwise, and a
\* token that matches none, an empty or blank one and an impossible
\* calendar date included, fails with CsvDateInvalidFormat
C25_CsvDateFirstPattern ==
    CsvDateCall =>
        LET Slashed(t, day_first, month_first) ==
                IF IsOk(day_first) THEN day_first ELSE month_first
            Expected(t) ==
                IF IsWritten(t, "-", <<{4}, {1, 2}, {1, 2}>>)
                THEN DateOf(Run(t, "-", 1), Run(t, "-", 2), Run(t, "-", 3))
                ELSE IF IsWritten(t, "/", <<{1, 2}, {1, 2}, {4}>>)
                THEN Slashed(t, DateOf(Run(t, "/", 3), Run(t, "/", 2), Run(t, "/", 1)),
                                DateOf(Run(t, "/", 3), Run(t, "/", 1), Run(t, "/", 2)))
                ELSE Err(CsvDateInvalidFormat)
        IN  /\ call.result = Expected(trim(text))
            /\ IsOk(call.result) => call.result = FirstMatch(trim(text))
            /\ ~IsOk(FirstMatch(trim(text))) => call.result = Err(CsvDateInvalidFormat)

\* the ambiguous 01/02/2025 read day-first
C25_Witness ==
    /\ CsvDateCall
    /\ text = <<"0","1","/","0","2","/","2","0","2","5">>
    /\ call.result = Ok([year |-> 2025, month |-> 2, day |-> 1])


----------------------------------------------------------------------------
(* Properties of the order of validation                                   *)

\* C26: in the QFX pipeline every amount is validated before any posting
\* date is resolved: a request over a document with an unparseable amount
\* anywhere in the selected branch fails with ParseFailed for that amount,
\* an earlier transaction's unresolvable date notwithstanding, and
\* QfxDateInvalidFormat is returned only when every amount of the branch is
\* a decimal
C26_AmountsBeforeDates ==
    (QfxRequest /\ WellFormedQfx /\ IsSome(SelectedBranch)) =>
        /\ BadAmounts # {} =>
              /\ IsErrorKind(call.result, "ParseFailed")
              /\ starts_with(call.result[2].cause, MSG.INVALID_AMOUNT)
        /\ call.result = Err(QfxDateInvalidFormat) =>
              /\ BadAmounts = {}
              /\ BadDates # {}

\* an unresolvable date in the first transaction, an unparseable amount in
\* the second
C26_Witness ==
    /\ QfxRequest
    /\ WellFormedQfx
    /\ doc.bank = Some(<<TxnBadDate, TxnBadAmount>>)
    /\ BadDates = {1}
    /\ BadAmounts = {2}
    /\ IsErrorKind(call.result, "ParseFailed")
    /\ starts_with(call.result[2].cause, MSG.INVALID_AMOUNT)


----------------------------------------------------------------------------
(* Properties of content acquisition                                       *)

\* the completed request was made over a file that could not be read
Unreadable == \E a \in past : ~a.readable

\* C27: parse_into acquires the content after the format is known and
\* prefers supplied content to the filepath: with content set the file is
\* never read; the file is read only when content is absent, a filepath is
\* set, and the format was given or follows from the extension, and then it
\* is read once; a read that fails is returned as ReadContentFailed, which
\* nothing else returns
C27_ContentAcquisition ==
    ParseCall =>
        /\ call.reads \in {0, 1}
        /\ IsSome(call.content) => call.reads = 0
        /\ call.reads = 1 <=>
              /\ ~IsSome(call.content)
              /\ IsSome(call.filename)
              /\ \/ IsSome(call.format)
                 \/ ExtensionIn(Unwrap(call.filename), {EXT_QFX, EXT_OFX})
        /\ IsErrorKind(call.result, "ReadContentFailed") <=> (call.reads = 1 /\ Unreadable)
        /\ (~IsSome(call.content) /\ ~IsSome(call.format) /\ call.reads = 0 /\ IsSome(call.filename))
              => call.result = Err(UnsupportedFormat)

\* the format from the extension, the file unreadable
C27_Witness ==
    /\ ParseCall
    /\ ~IsSome(call.content)
    /\ ~IsSome(call.format)
    /\ call.filename = Some(<<"a",".","q","f","x">>)
    /\ call.detects = 1
    /\ call.reads = 1
    /\ Unreadable
    /\ call.result = Err(ReadContentFailed)

====
